---- MODULE Spec2Model ----
(***************************************************************************)
(* procenv: layered configuration resolution.                              *)
(*                                                                         *)
(* The model covers the value tree (serde_json::Value), deep_merge,        *)
(* coerce_value, env_to_value / insert_nested, parse_file,                 *)
(* ConfigBuilder (builder calls and merge) and the generated               *)
(* __from_json_value extraction.                                           *)
(*                                                                         *)
(* Strings are sequences of one-character strings, so that prefix          *)
(* stripping, lowercasing, splitting and number parsing are computed the   *)
(* way the code computes them.                                             *)
(***************************************************************************)
EXTENDS Integers, Sequences, FiniteSets, TLC

VARIABLES
    base,           \* ConfigBuilder.base / the `base` argument of deep_merge
    prevBase,       \* value of base before the last deep_merge call
    overlay,        \* the overlay of the last deep_merge call
    layers,         \* an ordered list of layers to merge, lowest priority first
    layerIdx,       \* index of the last layer of `layers` merged into base
    arg,            \* the argument(s) of a call of coerce_value / env_to_value
    ret,            \* the value the call returned
    environ,        \* the process environment: <<name, value>> in the order
                    \* std::env::vars() enumerates it
    files,          \* ConfigBuilder.files: <<path, required>> in the order added
    env_prefix,     \* ConfigBuilder.env_prefix (NoString for None)
    env_separator,  \* ConfigBuilder.env_separator
    env_mappings,   \* ConfigBuilder.env_mappings: <<field_path, env_var>>
    pc,             \* "building" until merge() consumed the builder, then "done"
    result,         \* what merge() returned
    reads,          \* the files and environment reads merge() made, in order
    features,       \* the cargo features of the build ("toml", "yaml")
    origins,        \* ConfigBuilder.origins: the file recorded for each path
    dotenv_file,    \* the entries of the .env file: <<name, value>>
    pre_dotenv_vars,\* __pre_dotenv_vars of from_config_with_sources
    profile,        \* __profile of from_config
    sources         \* __sources: <<field path, variable, Source>> in order

mergeVars == <<base, prevBase, overlay, layers, layerIdx>>

callVars == <<arg, ret>>

builderVars == <<files, env_prefix, env_separator, env_mappings, pc, result, reads>>

configVars == <<dotenv_file, pre_dotenv_vars, profile, sources>>

vars == <<mergeVars, callVars, environ, builderVars, features, origins, configVars>>

(***************************************************************************)
(* Bounds                                                                  *)
(***************************************************************************)
\* integer leaves of the generated trees are 1..MaxLeaf
MaxLeaf == 2

\* length of the layer lists merged in order
MaxLayers == 3

\* length of the generated argument strings of coerce_value
MaxStrLen == 4

\* number of variables in a generated process environment
MaxEnvVars == 3

\* number of files added to a ConfigBuilder
MaxFiles == 2

\* number of direct mappings registered with a ConfigBuilder
MaxMappings == 1

\* file, file_optional and env_mapping calls on one builder
MaxCalls == 3

(***************************************************************************)
(* Sequence helpers                                                        *)
(***************************************************************************)
Range(s) == {s[i] : i \in 1..Len(s)}

IsPrefixOf(p, s) == Len(p) <= Len(s) /\ SubSeq(s, 1, Len(p)) = p

(***************************************************************************)
(* serde_json::Value                                                       *)
(*   Null | Bool | Number (i64 or f64) | String | Array | Object           *)
(* An integer is kept as its canonical decimal text, a float as sign,      *)
(* significant digits and decimal exponent.                                *)
(***************************************************************************)
Null == [t |-> "null", v |-> 0]

Bool(b) == [t |-> "bool", v |-> b]

IntNum(text) == [t |-> "int", v |-> text]

FloatNum(neg, m, e) == [t |-> "float", v |-> <<neg, m, e>>]

String(s) == [t |-> "str", v |-> s]

Array(l) == [t |-> "list", v |-> l]

Object(m) == [t |-> "map", v |-> m]

EmptyMap == [k \in {} |-> Null]

\* no value: Option::None where a Value is expected
NoValue == [t |-> "none", v |-> 0]

IsObject(x) == x.t = "map"

IsNull(x) == x.t = "null"

\* serde_json::Map::insert
MapInsert(m, key, value) ==
    [k \in (DOMAIN m) \cup {key} |-> IF k = key THEN value ELSE m[k]]

(***************************************************************************)
(* deep_merge (file.rs:357-372)                                            *)
(***************************************************************************)
RECURSIVE deep_merge(_, _)
RECURSIVE merge_entries(_, _, _)

\* for (key, overlay_value) in overlay_map { get_mut / insert }
merge_entries(base_map, overlay_map, keys) ==
    IF keys = {} THEN base_map
    ELSE LET key == CHOOSE k \in keys : TRUE
             overlay_value == overlay_map[key]
             next == IF key \in DOMAIN base_map
                     THEN [base_map EXCEPT ![key] = deep_merge(@, overlay_value)]
                     ELSE MapInsert(base_map, key, overlay_value)
         IN merge_entries(next, overlay_map, keys \ {key})

\* variant: a key present in both maps takes the overlay value, no recursion
deep_merge_shallow(b, o) ==
    IF IsObject(b) /\ IsObject(o)
    THEN Object([k \in (DOMAIN b.v) \cup (DOMAIN o.v) |->
                    IF k \in DOMAIN o.v THEN o.v[k] ELSE b.v[k]])
    ELSE o

\* variant: a non-map pairing keeps the base value
deep_merge_keep_base(b, o) ==
    IF IsObject(b) /\ IsObject(o)
    THEN Object(merge_entries(b.v, o.v, DOMAIN o.v))
    ELSE b

\* variant: the loop over the overlay's entries stops after its first insert
RECURSIVE merge_entries_break(_, _, _)
merge_entries_break(base_map, overlay_map, keys) ==
    IF keys = {} THEN base_map
    ELSE LET key == CHOOSE k \in keys : TRUE
             overlay_value == overlay_map[key]
         IN IF key \in DOMAIN base_map
            THEN merge_entries_break(
                     [base_map EXCEPT ![key] = deep_merge(@, overlay_value)],
                     overlay_map, keys \ {key})
            ELSE MapInsert(base_map, key, overlay_value)

deep_merge_break(b, o) ==
    IF IsObject(b) /\ IsObject(o)
    THEN Object(merge_entries_break(b.v, o.v, DOMAIN o.v))
    ELSE o

deep_merge(b, o) ==
    IF IsObject(b) /\ IsObject(o)
    THEN Object(merge_entries(b.v, o.v, DOMAIN o.v))
    ELSE o

(***************************************************************************)
(* Characters and number parsing                                           *)
(***************************************************************************)
UpperChars == <<"A", "B", "C", "D", "E", "F", "G", "H", "I", "J", "K", "L", "M",
                "N", "O", "P", "Q", "R", "S", "T", "U", "V", "W", "X", "Y", "Z">>

LowerChars == <<"a", "b", "c", "d", "e", "f", "g", "h", "i", "j", "k", "l", "m",
                "n", "o", "p", "q", "r", "s", "t", "u", "v", "w", "x", "y", "z">>

\* char::to_ascii_lowercase
to_ascii_lowercase(c) ==
    IF \E i \in 1..26 : UpperChars[i] = c
    THEN LowerChars[CHOOSE i \in 1..26 : UpperChars[i] = c]
    ELSE c

\* str::to_lowercase on ASCII text
to_lowercase(s) == [i \in 1..Len(s) |-> to_ascii_lowercase(s[i])]

\* str::eq_ignore_ascii_case
eq_ignore_ascii_case(s, lit) ==
    /\ Len(s) = Len(lit)
    /\ \A i \in 1..Len(s) : to_ascii_lowercase(s[i]) = to_ascii_lowercase(lit[i])

DigitChars == <<"0", "1", "2", "3", "4", "5", "6", "7", "8", "9">>

IsDigit(c) == \E i \in 1..10 : DigitChars[i] = c

DigitVal(c) == (CHOOSE i \in 1..10 : DigitChars[i] = c) - 1

AllDigits(s) == \A i \in 1..Len(s) : IsDigit(s[i])

\* str::contains(c)
Contains(s, c) == \E i \in 1..Len(s) : s[i] = c

RECURSIVE StripLeadingZeros(_)
StripLeadingZeros(d) ==
    IF Len(d) > 1 /\ Head(d) = "0" THEN StripLeadingZeros(Tail(d)) ELSE d

\* order of two digit strings without leading zeros
RECURSIVE DigitsLeq(_, _)
DigitsLeq(x, y) ==
    IF Len(x) # Len(y) THEN Len(x) < Len(y)
    ELSE IF x = <<>> THEN TRUE
    ELSE IF Head(x) # Head(y) THEN DigitVal(Head(x)) < DigitVal(Head(y))
    ELSE DigitsLeq(Tail(x), Tail(y))

ParseErr == <<"Err">>

\* i64::MAX = 9223372036854775807, -i64::MIN = 9223372036854775808
I64MaxDigits == <<"9","2","2","3","3","7","2","0","3","6","8","5","4","7","7","5","8","0","7">>
I64MinDigits == <<"9","2","2","3","3","7","2","0","3","6","8","5","4","7","7","5","8","0","8">>

\* str::parse::<i64>: an optional sign and one or more digits, in range.
\* The result is the canonical decimal text of the number, or ParseErr.
parse_i64(s) ==
    IF s = <<>> THEN ParseErr
    ELSE LET neg == Head(s) = "-"
             digits == IF Head(s) \in {"+", "-"} THEN Tail(s) ELSE s
             mag == StripLeadingZeros(digits)
         IN IF digits = <<>> \/ ~AllDigits(digits) THEN ParseErr
            ELSE IF mag = <<"0">> THEN mag
            ELSE IF neg
                 THEN IF DigitsLeq(mag, I64MinDigits) THEN <<"-">> \o mag ELSE ParseErr
                 ELSE IF DigitsLeq(mag, I64MaxDigits) THEN mag ELSE ParseErr

\* index of the first element of s that is in cs, 0 when there is none
FirstIndex(s, cs) ==
    IF \E i \in 1..Len(s) : s[i] \in cs
    THEN CHOOSE i \in 1..Len(s) : s[i] \in cs /\ \A j \in 1..(i - 1) : s[j] \notin cs
    ELSE 0

RECURSIVE DigitsToNat(_)
DigitsToNat(d) ==
    IF d = <<>> THEN 0 ELSE 10 * DigitsToNat(SubSeq(d, 1, Len(d) - 1)) + DigitVal(d[Len(d)])

RECURSIVE StripTrailingZeros(_)
StripTrailingZeros(d) ==
    IF Len(d) > 1 /\ d[Len(d)] = "0" THEN StripTrailingZeros(SubSeq(d, 1, Len(d) - 1)) ELSE d

\* f64::MAX = 1.7976931348623157e308; a decimal whose leading digit has
\* exponent 308 rounds to infinity from 1.797693134862315807...e308 on
F64MaxExp10 == 308
F64RoundUpDigits == <<"1","7","9","7","6","9","3","1","3","4","8","6","2","3","1","5","8","0","8">>

\* the smallest positive f64 is about 4.9e-324; smaller decimals round to 0
F64MinExp10 == -324

PadTo(d, n) == [i \in 1..n |-> IF i <= Len(d) THEN d[i] ELSE "0"]

\* str::parse::<f64> (core::num::dec2flt):
\*   Sign? ( Digit+ | Digit+ '.' Digit* | Digit* '.' Digit+ ) ( [eE] Sign? Digit+ )?
\* ('inf', 'infinity' and 'nan' are accepted too, they hold no decimal point).
\* The result is <<kind, negative, digits, exponent>> with the value
\* digits * 10^exponent, digits without leading and trailing zeros; kind is
\* "inf" when the decimal is beyond the f64 range, else "finite"; or ParseErr.
parse_f64(s) ==
    LET rounded(neg, m, e, lead) ==
            IF m = <<"0">> \/ lead < F64MinExp10 THEN <<"finite", neg, <<"0">>, 0>>
            ELSE IF \/ lead > F64MaxExp10
                    \/ /\ lead = F64MaxExp10
                       /\ DigitsLeq(F64RoundUpDigits, PadTo(m, Len(F64RoundUpDigits)))
                 THEN <<"inf", neg, <<"0">>, 0>>
                 ELSE <<"finite", neg, m, e>>
        scaled(neg, m, e) == rounded(neg, m, e, Len(m) + e - 1)
        significant(neg, all, m, fracLen, expVal) ==
            scaled(neg, m, expVal - fracLen + (Len(all) - Len(m)))
        digits(neg, all, fracLen, expVal) ==
            significant(neg, all, StripTrailingZeros(all), fracLen, expVal)
        decimal(neg, intPart, fracPart, hasExp, expNeg, expDigits) ==
            IF \/ ~AllDigits(intPart \o fracPart)
               \/ intPart \o fracPart = <<>>
               \/ (hasExp /\ (expDigits = <<>> \/ ~AllDigits(expDigits)))
            THEN ParseErr
            ELSE digits(neg, StripLeadingZeros(intPart \o fracPart), Len(fracPart),
                        (IF expNeg THEN 0 - 1 ELSE 1) * DigitsToNat(expDigits))
        pointed(neg, mant, dot, hasExp, exp) ==
            decimal(neg,
                    IF dot = 0 THEN mant ELSE SubSeq(mant, 1, dot - 1),
                    IF dot = 0 THEN <<>> ELSE SubSeq(mant, dot + 1, Len(mant)),
                    hasExp,
                    exp # <<>> /\ Head(exp) = "-",
                    IF exp # <<>> /\ Head(exp) \in {"+", "-"} THEN Tail(exp) ELSE exp)
        mantissa(neg, mant, hasExp, exp) ==
            pointed(neg, mant, FirstIndex(mant, {"."}), hasExp, exp)
        exponent(neg, body, epos) ==
            mantissa(neg,
                     IF epos = 0 THEN body ELSE SubSeq(body, 1, epos - 1),
                     epos # 0,
                     IF epos = 0 THEN <<>> ELSE SubSeq(body, epos + 1, Len(body)))
        unsigned(neg, body) ==
            IF to_lowercase(body) \in {<<"i","n","f">>, <<"i","n","f","i","n","i","t","y">>,
                                       <<"n","a","n">>}
            THEN <<"inf", neg, <<"0">>, 0>>
            ELSE exponent(neg, body, FirstIndex(body, {"e", "E"}))
    IN IF s = <<>> THEN ParseErr
       ELSE unsigned(Head(s) = "-", IF Head(s) \in {"+", "-"} THEN Tail(s) ELSE s)

\* serde_json::Number::from_f64: None for a value that is not finite
from_f64_is_some(f) == f[1] = "finite"

(***************************************************************************)
(* coerce_value (file.rs:381-406)                                          *)
(***************************************************************************)
S_true == <<"t", "r", "u", "e">>
S_false == <<"f", "a", "l", "s", "e">>

\* variant: the float parse is tried without the decimal point gate
coerce_value_no_gate(s) ==
    LET float_or_string(f) ==
            IF f # ParseErr /\ from_f64_is_some(f)
            THEN FloatNum(f[2], f[3], f[4]) ELSE String(s)
        int_or_float(i) ==
            IF i # ParseErr THEN IntNum(i) ELSE float_or_string(parse_f64(s))
    IN IF eq_ignore_ascii_case(s, S_true) THEN Bool(TRUE)
       ELSE IF eq_ignore_ascii_case(s, S_false) THEN Bool(FALSE)
       ELSE int_or_float(parse_i64(s))

coerce_value(s) ==
    LET float_or_string(f) ==
            IF f # ParseErr /\ from_f64_is_some(f)
            THEN FloatNum(f[2], f[3], f[4]) ELSE String(s)
        int_or_float(i) ==
            IF i # ParseErr THEN IntNum(i)
            ELSE IF Contains(s, ".") THEN float_or_string(parse_f64(s))
            ELSE String(s)
    IN IF eq_ignore_ascii_case(s, S_true) THEN Bool(TRUE)
       ELSE IF eq_ignore_ascii_case(s, S_false) THEN Bool(FALSE)
       ELSE int_or_float(parse_i64(s))

(***************************************************************************)
(* env_to_value / insert_nested (file.rs:413-445)                          *)
(***************************************************************************)
\* Option::None / Err where a string is expected
NoString == <<"None">>

\* str::strip_prefix: the remainder, or NoString for None
strip_prefix(s, prefix) ==
    IF IsPrefixOf(prefix, s) THEN SubSeq(s, Len(prefix) + 1, Len(s)) ELSE NoString

\* position of the first occurrence of sep in s, 0 when there is none
FindSub(s, sep) ==
    LET hits == {i \in 1..(Len(s) - Len(sep) + 1) : SubSeq(s, i, i + Len(sep) - 1) = sep}
    IN IF hits = {} THEN 0 ELSE CHOOSE i \in hits : \A j \in hits : i <= j

\* str::split(sep).collect() for a non-empty separator
RECURSIVE Split(_, _)
Split(s, sep) ==
    LET i == FindSub(s, sep)
    IN IF i = 0 THEN <<s>>
       ELSE <<SubSeq(s, 1, i - 1)>> \o Split(SubSeq(s, i + Len(sep), Len(s)), sep)

RECURSIVE insert_nested(_, _, _)

\* variant: a non-map value on the way is replaced by a fresh map
RECURSIVE insert_nested_force(_, _, _)
insert_nested_force(map, parts, value) ==
    IF parts = <<>> THEN map
    ELSE IF Len(parts) = 1 THEN MapInsert(map, parts[1], value)
    ELSE LET entry == IF parts[1] \in DOMAIN map /\ IsObject(map[parts[1]])
                      THEN map[parts[1]] ELSE Object(EmptyMap)
         IN MapInsert(map, parts[1],
                      Object(insert_nested_force(entry.v, Tail(parts), value)))

\* variant: the last segment is inserted only when its key is vacant
insert_nested_keep_first(map, parts, value) ==
    IF parts = <<>> THEN map
    ELSE IF Len(parts) = 1
         THEN IF parts[1] \in DOMAIN map THEN map ELSE MapInsert(map, parts[1], value)
    ELSE LET entry == IF parts[1] \in DOMAIN map THEN map[parts[1]] ELSE Object(EmptyMap)
         IN IF IsObject(entry)
            THEN MapInsert(map, parts[1], Object(insert_nested(entry.v, Tail(parts), value)))
            ELSE map

insert_nested(map, parts, value) ==
    IF parts = <<>> THEN map
    ELSE IF Len(parts) = 1 THEN MapInsert(map, parts[1], value)
    ELSE LET entry == IF parts[1] \in DOMAIN map THEN map[parts[1]] ELSE Object(EmptyMap)
         IN IF IsObject(entry)
            THEN MapInsert(map, parts[1], Object(insert_nested(entry.v, Tail(parts), value)))
            ELSE map

\* the loop body of env_to_value for one (key, value) of std::env::vars()
env_entry(root, key, value, prefix, separator) ==
    LET stripped == strip_prefix(key, prefix)
    IN IF stripped = NoString THEN root
       ELSE insert_nested(root, Split(to_lowercase(stripped), separator),
                          coerce_value(value))

RECURSIVE env_fold(_, _, _, _)
env_fold(root, vs, prefix, separator) ==
    IF vs = <<>> THEN root
    ELSE env_fold(env_entry(root, Head(vs)[1], Head(vs)[2], prefix, separator),
                  Tail(vs), prefix, separator)

\* variant: the remainder of the name is not lowercased
env_to_value_no_lowercase(vs, prefix, separator) ==
    LET RECURSIVE fold(_, _)
        fold(root, rest) ==
            IF rest = <<>> THEN root
            ELSE LET stripped == strip_prefix(Head(rest)[1], prefix)
                 IN fold(IF stripped = NoString THEN root
                         ELSE insert_nested(root, Split(stripped, separator),
                                            coerce_value(Head(rest)[2])),
                         Tail(rest))
    IN Object(fold(EmptyMap, vs))

\* env_to_value(prefix, separator) when std::env::vars() yields vs
env_to_value(vs, prefix, separator) ==
    Object(env_fold(EmptyMap, vs, prefix, separator))

\* std::env::var(name): the value, or NoString when the variable is not set
env_var(vs, name) ==
    IF \E i \in 1..Len(vs) : vs[i][1] = name
    THEN vs[CHOOSE i \in 1..Len(vs) : vs[i][1] = name][2]
    ELSE NoString

(***************************************************************************)
(* FileFormat::from_path and parse_file (file.rs:45-55, 253-299)           *)
(***************************************************************************)
\* index of the last occurrence of c in s, 0 when there is none
LastIndex(s, c) ==
    IF Contains(s, c)
    THEN CHOOSE i \in 1..Len(s) : s[i] = c /\ \A j \in (i + 1)..Len(s) : s[j] # c
    ELSE 0

\* Path::file_name for a path that does not end in a separator
file_name(path) == SubSeq(path, LastIndex(path, "/") + 1, Len(path))

\* Path::extension: the part of the file name after its last '.', None
\* (NoString) without a '.' or when the only '.' starts the name
extension(path) ==
    LET name == file_name(path)
        dot == LastIndex(name, ".")
    IN IF dot <= 1 THEN NoString ELSE SubSeq(name, dot + 1, Len(name))

\* variant: the extension is matched as written
FileFormat_from_path_case_sensitive(path, feats) ==
    LET ext == extension(path)
        low == ext
    IN IF ext = NoString THEN "None"
       ELSE IF low = <<"j","s","o","n">> THEN "Json"
       ELSE IF "toml" \in feats /\ low = <<"t","o","m","l">> THEN "Toml"
       ELSE IF "yaml" \in feats /\ low \in {<<"y","a","m","l">>, <<"y","m","l">>}
            THEN "Yaml"
       ELSE "None"

\* FileFormat::from_path, for a build with the features feats
FileFormat_from_path(path, feats) ==
    LET ext == extension(path)
        low == to_lowercase(ext)
    IN IF ext = NoString THEN "None"
       ELSE IF low = <<"j","s","o","n">> THEN "Json"
       ELSE IF "toml" \in feats /\ low = <<"t","o","m","l">> THEN "Toml"
       ELSE IF "yaml" \in feats /\ low \in {<<"y","a","m","l">>, <<"y","m","l">>}
            THEN "Yaml"
       ELSE "None"

\* Result<Option<Value>, FileError>
OkSome(v) == [ok |-> TRUE, kind |-> "Some", value |-> v]
OkNone == [ok |-> TRUE, kind |-> "None", value |-> NoValue]
Err(kind, detail) == [ok |-> FALSE, kind |-> kind, value |-> detail]

\* variant: a missing file is an error whether or not it is required
parse_file_always_required(path, required, file, feats) ==
    IF ~file.exists THEN Err("NotFound", path)
    ELSE IF ~file.readable THEN Err("ReadError", path)
    ELSE IF FileFormat_from_path(path, feats) = "None"
         THEN Err("UnknownFormat",
                  IF extension(path) = NoString
                  THEN <<"u","n","k","n","o","w","n">> ELSE extension(path))
    ELSE IF file.parsed = NoValue THEN Err("Parse", path)
    ELSE OkSome(file.parsed)

\* parse_file(path, required) on a file in the state file: whether it
\* exists, whether read_to_string succeeds, and what its format's parser
\* makes of its content (a Value, or NoValue for a syntax error)
parse_file(path, required, file, feats) ==
    IF ~file.exists
    THEN IF required THEN Err("NotFound", path) ELSE OkNone
    ELSE IF ~file.readable THEN Err("ReadError", path)
    ELSE IF FileFormat_from_path(path, feats) = "None"
         THEN Err("UnknownFormat",
                  IF extension(path) = NoString
                  THEN <<"u","n","k","n","o","w","n">> ELSE extension(path))
    ELSE IF file.parsed = NoValue THEN Err("Parse", path)
    ELSE OkSome(file.parsed)

(***************************************************************************)
(* Paths into a value tree                                                 *)
(***************************************************************************)
\* Value::get applied along a path of keys (NoValue when absent)
RECURSIVE GetPath(_, _)
GetPath(x, path) ==
    IF path = <<>> THEN x
    ELSE IF IsObject(x) /\ Head(path) \in DOMAIN x.v
         THEN GetPath(x.v[Head(path)], Tail(path))
         ELSE NoValue

\* the paths at which x holds a non-map value
RECURSIVE NonMapPaths(_)
NonMapPaths(x) ==
    IF IsObject(x)
    THEN UNION {{<<k>> \o p : p \in NonMapPaths(x.v[k])} : k \in DOMAIN x.v}
    ELSE {<<>>}

\* the leaves of x: non-map values and empty maps
RECURSIVE LeafPaths(_)
LeafPaths(x) ==
    IF IsObject(x) /\ DOMAIN x.v # {}
    THEN UNION {{<<k>> \o p : p \in LeafPaths(x.v[k])} : k \in DOMAIN x.v}
    ELSE {<<>>}

(***************************************************************************)
(* Parts of the state a specification does not use                         *)
(***************************************************************************)
NoResult == [ok |-> FALSE, kind |-> "none", value |-> NoValue]

AllFeatures == {"toml", "yaml"}

NoBuilder ==
    /\ features = AllFeatures
    /\ files = <<>>
    /\ env_prefix = NoString
    /\ env_separator = <<"_">>
    /\ env_mappings = <<>>
    /\ pc = "unused"
    /\ result = NoResult
    /\ reads = <<>>

NoMerge ==
    /\ base = NoValue
    /\ prevBase = NoValue
    /\ overlay = NoValue
    /\ layers = <<>>
    /\ layerIdx = 0

NoCall ==
    /\ arg = <<>>
    /\ ret = NoValue

NoOrigins == {}

NoConfig ==
    /\ dotenv_file = <<>>
    /\ pre_dotenv_vars = {}
    /\ profile = NoString
    /\ sources = <<>>

(***************************************************************************)
(* Generated trees                                                         *)
(***************************************************************************)
Digit == <<"1", "2", "3", "4", "5", "6", "7", "8", "9">>

SmallInt(n) == IntNum(<<Digit[n]>>)

K_a == <<"a">>
K_b == <<"b">>
K_x == <<"x">>
K_y == <<"y">>

\* all maps from a subset of keys into vals
MapsOver(keys, vals) == UNION {[d -> vals] : d \in SUBSET keys}

IntLeaves == {SmallInt(n) : n \in 1..MaxLeaf}

ListLeaves == {Array(<<SmallInt(1), SmallInt(2)>>), Array(<<SmallInt(3)>>)}

Leaves == {Null} \cup IntLeaves \cup ListLeaves

InnerTrees == {Object(m) : m \in MapsOver({K_x, K_y}, IntLeaves)}

RootTrees == {Object(m) : m \in MapsOver({K_a, K_b}, Leaves \cup InnerTrees)}

Trees == Leaves \cup RootTrees

(***************************************************************************)
(* Layers merged one after the other with deep_merge                       *)
(***************************************************************************)
InitDeepMerge ==
    /\ base \in Trees
    /\ prevBase = NoValue
    /\ overlay = NoValue
    /\ layers = <<>>
    /\ layerIdx = 0
    /\ NoCall
    /\ environ = <<>>
    /\ NoBuilder
    /\ origins = NoOrigins
    /\ NoConfig

\* deep_merge(&mut base, v)
Merge(v) ==
    /\ overlay = NoValue
    /\ prevBase' = base
    /\ overlay' = v
    /\ base' = deep_merge(base, v)
    /\ UNCHANGED <<layers, layerIdx, callVars, environ, builderVars, features, origins, configVars>>

NextDeepMerge == \E v \in Trees : Merge(v)

SpecDeepMerge == InitDeepMerge /\ [][NextDeepMerge]_vars

(***************************************************************************)
(* C1: deep_merge(base, overlay) leaves in base: for two maps the map over *)
(* the union of the keys in which a key only in base keeps base's value,   *)
(* a key only in overlay takes overlay's value and a key in both holds     *)
(* the recursive merge of the two values; for every other pairing the      *)
(* overlay value wholesale.                                                *)
(***************************************************************************)
RECURSIVE MergedAsSpecified(_, _, _)
MergedAsSpecified(b, o, r) ==
    IF IsObject(b) /\ IsObject(o)
    THEN /\ IsObject(r)
         /\ DOMAIN r.v = (DOMAIN b.v) \cup (DOMAIN o.v)
         /\ \A k \in (DOMAIN b.v) \ (DOMAIN o.v) : r.v[k] = b.v[k]
         /\ \A k \in (DOMAIN o.v) \ (DOMAIN b.v) : r.v[k] = o.v[k]
         /\ \A k \in (DOMAIN b.v) \cap (DOMAIN o.v) :
                MergedAsSpecified(b.v[k], o.v[k], r.v[k])
    ELSE r = o

C1_DeepMergeRule ==
    overlay # NoValue => MergedAsSpecified(prevBase, overlay, base)

\* two maps sharing a key that holds a map on both sides and a key that
\* holds different lists on both sides have been merged
C1_Witness ==
    /\ overlay # NoValue
    /\ IsObject(prevBase) /\ IsObject(overlay)
    /\ \E k \in (DOMAIN prevBase.v) \cap (DOMAIN overlay.v) :
          /\ IsObject(prevBase.v[k]) /\ IsObject(overlay.v[k])
          /\ DOMAIN prevBase.v[k].v # DOMAIN overlay.v[k].v
          /\ DOMAIN prevBase.v[k].v # {} /\ DOMAIN overlay.v[k].v # {}
    /\ \E k \in (DOMAIN prevBase.v) \cap (DOMAIN overlay.v) :
          /\ prevBase.v[k].t = "list" /\ overlay.v[k].t = "list"
          /\ prevBase.v[k] # overlay.v[k]
          /\ base.v[k] = overlay.v[k]

(***************************************************************************)
(* C3: last-writer-wins. When map-rooted layers are merged in order, at    *)
(* every path where the last layer holds a non-map value the merged tree   *)
(* holds that layer's value.                                               *)
(***************************************************************************)
C3_LastWriterWins ==
    (overlay # NoValue /\ IsObject(prevBase) /\ IsObject(overlay)) =>
        \A p \in NonMapPaths(overlay) : GetPath(base, p) = GetPath(overlay, p)

\* base and overlay share a key holding different scalars or lists, the
\* overlay's value won, and the merge in the other order gives another tree
C3_Witness ==
    /\ overlay # NoValue
    /\ IsObject(prevBase) /\ IsObject(overlay)
    /\ \E k \in (DOMAIN prevBase.v) \cap (DOMAIN overlay.v) :
          /\ ~IsObject(prevBase.v[k]) /\ ~IsObject(overlay.v[k])
          /\ prevBase.v[k] # overlay.v[k]
          /\ base.v[k] = overlay.v[k]
    /\ deep_merge(overlay, prevBase) # base

(***************************************************************************)
(* A list of map-rooted layers merged in order, lowest priority first      *)
(* (the loop of ConfigBuilder::merge over already parsed layers)           *)
(***************************************************************************)
LayerTrees ==
    {Object(m) : m \in MapsOver({K_a, K_b},
        {SmallInt(1), Object(K_x :> SmallInt(1)), Object(K_y :> SmallInt(2))})}

InitLayers ==
    /\ layers \in [1..MaxLayers -> LayerTrees]
    /\ base = layers[1]
    /\ layerIdx = 1
    /\ prevBase = NoValue
    /\ overlay = NoValue
    /\ NoCall
    /\ environ = <<>>
    /\ NoBuilder
    /\ origins = NoOrigins
    /\ NoConfig

MergeNextLayer ==
    /\ layerIdx < Len(layers)
    /\ prevBase' = base
    /\ overlay' = layers[layerIdx + 1]
    /\ base' = deep_merge(base, layers[layerIdx + 1])
    /\ layerIdx' = layerIdx + 1
    /\ UNCHANGED <<layers, callVars, environ, builderVars, features, origins, configVars>>

NextLayers == MergeNextLayer

SpecLayers == InitLayers /\ [][NextLayers]_vars

\* the paths a map-rooted layer touches
TouchedPaths(x) == IF x = Object(EmptyMap) THEN {} ELSE LeafPaths(x)

Disjoint(x, y) ==
    \A p \in TouchedPaths(x), q \in TouchedPaths(y) :
        ~IsPrefixOf(p, q) /\ ~IsPrefixOf(q, p)

PairwiseDisjoint(ls) ==
    \A i, j \in 1..Len(ls) : i < j => Disjoint(ls[i], ls[j])

\* l1 merged with (l2 merged with (... merged with ln))
RECURSIVE MergeRight(_)
MergeRight(ls) ==
    IF Len(ls) = 1 THEN ls[1]
    ELSE deep_merge(Head(ls), MergeRight(Tail(ls)))

(***************************************************************************)
(* C4: deep_merge is associative over layers that touch pairwise disjoint  *)
(* paths: merging the layers one after the other onto the first gives the  *)
(* tree obtained by merging onto the first layer the merge of the later    *)
(* ones.                                                                   *)
(***************************************************************************)
C4_AssociativeOnDisjoint ==
    (layerIdx = MaxLayers /\ PairwiseDisjoint(layers)) =>
        base = MergeRight(layers)

\* three non-empty layers with pairwise disjoint paths, two of them under
\* a shared key, have been merged
C4_Witness ==
    /\ layerIdx = MaxLayers
    /\ PairwiseDisjoint(layers)
    /\ \A i \in 1..Len(layers) : layers[i] # Object(EmptyMap)
    /\ \E i, j \in 1..Len(layers) :
          i < j /\ (DOMAIN layers[i].v) \cap (DOMAIN layers[j].v) # {}
    /\ base = MergeRight(layers)

(***************************************************************************)
(* coerce_value applied to one string                                      *)
(***************************************************************************)
CoerceAlphabet == {"t", "T", "r", "u", "e", "0", "1", ".", "-", "+"}

StringsUpTo(alphabet, n) == UNION {[1..k -> alphabet] : k \in 0..n}

LongStrings ==
    { <<"f","a","l","s","e">>, <<"F","A","L","S","E">>, <<"f","A","l","S","e">>,
      <<"T","R","U","E">>, <<"f","a","l","s","e","1">>,
      I64MaxDigits, I64MinDigits, <<"-">> \o I64MinDigits,
      <<"-">> \o SubSeq(I64MinDigits, 1, 18) \o <<"9">>,
      <<"+">> \o I64MaxDigits, <<"0","0">> \o I64MaxDigits,
      <<"1",".","0","e","9","9","9">>, <<"1",".","0","e","-","9","9","9">>,
      <<"1",".","8","e","3","0","8">>, <<"1",".","7","e","3","0","8">>,
      <<"3",".","1","4">>, <<"1",".","5","0">>, <<"-","1","0","0">>,
      <<"1","e","1","0">>, <<"i","n","f">>, <<"n","a","n">>,
      <<"h","e","l","l","o"," ","w","o","r","l","d">>,
      <<"1","2","7",".","0",".","0",".","1">> }

CoerceInputs == StringsUpTo(CoerceAlphabet, MaxStrLen) \cup LongStrings

InitCoerce ==
    /\ arg \in CoerceInputs
    /\ ret = NoValue
    /\ NoMerge
    /\ environ = <<>>
    /\ NoBuilder
    /\ origins = NoOrigins
    /\ NoConfig

\* ret = coerce_value(arg)
Coerce ==
    /\ ret = NoValue
    /\ ret' = coerce_value(arg)
    /\ UNCHANGED <<arg, mergeVars, environ, builderVars, features, origins, configVars>>

NextCoerce == Coerce

SpecCoerce == InitCoerce /\ [][NextCoerce]_vars

(***************************************************************************)
(* C5: coerce_value is total and follows one precedence: Bool for "true"   *)
(* or "false" in any letter case; otherwise Int when the string parses as  *)
(* an i64; otherwise Float only if the string holds a decimal point and    *)
(* parses as a float; otherwise String holding the string unchanged. A     *)
(* string without a decimal point never becomes a Float.                   *)
(***************************************************************************)
IsBoolLiteral(s) ==
    to_lowercase(s) = S_true \/ to_lowercase(s) = S_false

C5_CoercePrecedence ==
    ret # NoValue =>
        /\ ret.t \in {"bool", "int", "float", "str"}
        /\ IsBoolLiteral(arg) => ret = Bool(to_lowercase(arg) = S_true)
        /\ (~IsBoolLiteral(arg) /\ parse_i64(arg) # ParseErr) =>
               ret = IntNum(parse_i64(arg))
        /\ (~IsBoolLiteral(arg) /\ parse_i64(arg) = ParseErr) =>
               /\ ret.t \in {"float", "str"}
               /\ ret.t = "float" =>
                      Contains(arg, ".") /\ parse_f64(arg) # ParseErr
               /\ ret.t = "str" => ret = String(arg)
               /\ (Contains(arg, ".") /\ parse_f64(arg) # ParseErr
                      /\ from_f64_is_some(parse_f64(arg))) => ret.t = "float"
        /\ ~Contains(arg, ".") => ret.t # "float"

\* a string without a decimal point that the float parser accepts and the
\* integer parser rejects (such as "1e1") has been coerced to a String
C5_Witness ==
    /\ ret # NoValue
    /\ ~Contains(arg, ".")
    /\ parse_i64(arg) = ParseErr
    /\ parse_f64(arg) # ParseErr
    /\ ret = String(arg)

(***************************************************************************)
(* env_to_value applied to a process environment                           *)
(***************************************************************************)
S_APP_ == <<"A", "P", "P", "_">>
S_sep == <<"_">>
S_sep2 == <<"_", "_">>

\* the variables a generated environment is made of
EnvCandidates ==
    { << S_APP_ \o <<"D","B","_","H","O","S","T">>, <<"l","o","c","a","l","h","o","s","t">> >>,
      << S_APP_ \o <<"D","B","_","P","O","R","T">>, <<"5","4","3","2">> >>,
      << S_APP_ \o <<"D","B">>, <<"x">> >>,
      << S_APP_ \o <<"d","b">>, <<"t","r","u","e">> >>,
      << S_APP_ \o <<"D","B","_","_","H","O","S","T">>, <<"1",".","5">> >>,
      << S_APP_, <<"e">> >>,
      << <<"A","P","P">>, <<"n">> >>,
      << <<"D","B","_","H","O","S","T">>, <<"o">> >> }

\* the sequences of at most n different elements of S
RECURSIVE SeqsNoRepeat(_, _)
SeqsNoRepeat(S, n) ==
    IF n = 0 THEN {<<>>}
    ELSE LET shorter == SeqsNoRepeat(S, n - 1)
         IN shorter \cup UNION {{Append(q, x) : x \in S \ Range(q)} : q \in shorter}

Environments == SeqsNoRepeat(EnvCandidates, MaxEnvVars)

EnvPrefixes == {S_APP_, <<"A","P","P">>, <<>>}

EnvSeparators == {S_sep, S_sep2}

InitEnv ==
    /\ environ \in Environments
    /\ arg \in EnvPrefixes \X EnvSeparators
    /\ ret = NoValue
    /\ NoMerge
    /\ NoBuilder
    /\ origins = NoOrigins
    /\ NoConfig

\* ret = env_to_value(prefix, separator)
EnvToValue ==
    /\ ret = NoValue
    /\ ret' = env_to_value(environ, arg[1], arg[2])
    /\ UNCHANGED <<arg, mergeVars, environ, builderVars, features, origins, configVars>>

NextEnv == EnvToValue

SpecEnv == InitEnv /\ [][NextEnv]_vars

\* the path of a prefixed variable: prefix stripped, lowercased, split
EnvPath(name, prefix, separator) ==
    Split(to_lowercase(strip_prefix(name, prefix)), separator)

Prefixed(vs, prefix) == {i \in 1..Len(vs) : IsPrefixOf(prefix, vs[i][1])}

\* every leaf of the tree is the path of a prefixed variable
OnlyPrefixedKeys(tree, vs, prefix, separator) ==
    \A p \in TouchedPaths(tree) :
        \E i \in Prefixed(vs, prefix) : EnvPath(vs[i][1], prefix, separator) = p

(***************************************************************************)
(* C6 as stated: env_to_value returns a map in which the coerced value of  *)
(* every variable whose name starts with the prefix is found at the path   *)
(* got by stripping the prefix, lowercasing and splitting on the           *)
(* separator, and no other variable contributes a key.                     *)
(***************************************************************************)
C6_EveryPrefixedVarFound ==
    ret # NoValue =>
        /\ IsObject(ret)
        /\ \A i \in Prefixed(environ, arg[1]) :
              GetPath(ret, EnvPath(environ[i][1], arg[1], arg[2]))
                  = coerce_value(environ[i][2])
        /\ OnlyPrefixedKeys(ret, environ, arg[1], arg[2])

(***************************************************************************)
(* C6 amended: the coerced value of a prefixed variable is found at its    *)
(* path when that path is neither equal to nor an extension of the path    *)
(* of another prefixed variable; variables without the prefix contribute   *)
(* no key.                                                                 *)
(***************************************************************************)
C6_UncontestedVarFound ==
    ret # NoValue =>
        /\ IsObject(ret)
        /\ \A i \in Prefixed(environ, arg[1]) :
              (\A j \in Prefixed(environ, arg[1]) \ {i} :
                  ~IsPrefixOf(EnvPath(environ[j][1], arg[1], arg[2]),
                              EnvPath(environ[i][1], arg[1], arg[2])))
              => GetPath(ret, EnvPath(environ[i][1], arg[1], arg[2]))
                     = coerce_value(environ[i][2])
        /\ OnlyPrefixedKeys(ret, environ, arg[1], arg[2])

\* APP_DB_HOST and APP_DB_PORT, and a variable without the prefix, give
\* {db: {host: "localhost", port: 5432}}
C6_Witness ==
    /\ ret # NoValue
    /\ arg = <<S_APP_, S_sep>>
    /\ Len(environ) = 3
    /\ ret = Object(<<"d","b">> :> Object(
                 (<<"h","o","s","t">> :> String(<<"l","o","c","a","l","h","o","s","t">>))
              @@ (<<"p","o","r","t">> :> IntNum(<<"5","4","3","2">>))))

(***************************************************************************)
(* The file system the builder reads                                       *)
(***************************************************************************)
P_a == <<"a", ".", "j", "s", "o", "n">>
P_b == <<"e", "t", "c", "/", "b", ".", "J", "S", "O", "N">>
P_m == <<"m", ".", "j", "s", "o", "n">>
P_t == <<"c", ".", "t", "x", "t">>
P_x == <<"x", ".", "j", "s", "o", "n">>
P_u == <<"u", ".", "j", "s", "o", "n">>
P_s == <<"s", ".", "j", "s", "o", "n">>

Paths == {P_a, P_b, P_m, P_t, P_x, P_u, P_s}

Tree_a == Object((K_a :> SmallInt(2)) @@ (K_b :> Object(K_x :> SmallInt(2))))

Tree_b == Object((K_a :> SmallInt(3)) @@ (K_b :> Object(K_y :> SmallInt(3))))

\* the files of the declared structs
P_c == <<"c", ".", "j", "s", "o", "n">>
P_d == <<"d", ".", "j", "s", "o", "n">>
P_n == <<"n", ".", "j", "s", "o", "n">>

P_e == <<"e", ".", "j", "s", "o", "n">>

ConfigPaths == {P_c, P_d, P_n, P_e}

Tree_c ==
    Object((<<"l","e","v","e","l">> :> String(<<"w">>))
             @@ (<<"u","r","l">> :> String(<<"f">>)))

Tree_d ==
    Object((<<"l","e","v","e","l">> :> Null)
             @@ (<<"p","o","r","t">> :> SmallInt(7)))

Tree_e == Object(<<"u","r","l">> :> Null)

Tree_n ==
    Object((<<"n","a","m","e">> :> String(<<"k">>))
             @@ (<<"d","b">> :>
                    Object((<<"h","o","s","t">> :> String(<<"g">>))
                             @@ (<<"p","o","o","l">> :>
                                    Object(<<"m","i","n">> :> SmallInt(3))))))

FileSystem ==
    [path \in Paths \cup ConfigPaths |->
        CASE path = P_c -> [exists |-> TRUE, readable |-> TRUE, parsed |-> Tree_c]
          [] path = P_d -> [exists |-> TRUE, readable |-> TRUE, parsed |-> Tree_d]
          [] path = P_n -> [exists |-> TRUE, readable |-> TRUE, parsed |-> Tree_n]
          [] path = P_e -> [exists |-> TRUE, readable |-> TRUE, parsed |-> Tree_e]
          [] path = P_a -> [exists |-> TRUE, readable |-> TRUE, parsed |-> Tree_a]
          [] path = P_b -> [exists |-> TRUE, readable |-> TRUE, parsed |-> Tree_b]
          [] path = P_m -> [exists |-> FALSE, readable |-> FALSE, parsed |-> NoValue]
          [] path = P_t -> [exists |-> TRUE, readable |-> TRUE, parsed |-> Tree_a]
          [] path = P_x -> [exists |-> TRUE, readable |-> TRUE, parsed |-> NoValue]
          [] path = P_u -> [exists |-> TRUE, readable |-> FALSE, parsed |-> NoValue]
          [] path = P_s -> [exists |-> TRUE, readable |-> TRUE, parsed |-> SmallInt(5)]]

(***************************************************************************)
(* ConfigBuilder::merge (builder.rs:311-351)                               *)
(***************************************************************************)
\* variant: a failing file is skipped and the loop goes on; the last error
\* is returned after the loop
RECURSIVE merge_files_continue(_, _, _, _)
merge_files_continue(b, fl, rd, feats) ==
    LET first_error(parsed, rest) ==
            IF ~parsed.ok /\ rest.error.ok
            THEN [base |-> rest.base, error |-> parsed, reads |-> rest.reads]
            ELSE rest
        layer(path, parsed) ==
            first_error(parsed,
                merge_files_continue(
                    IF parsed.ok /\ parsed.kind = "Some"
                    THEN deep_merge(b, parsed.value) ELSE b,
                    Tail(fl), Append(rd, <<"parse_file", path>>), feats))
        entry(path, required) ==
            layer(path, parse_file(path, required, FileSystem[path], feats))
    IN IF fl = <<>> THEN [base |-> b, error |-> OkNone, reads |-> rd]
       ELSE entry(Head(fl)[1], Head(fl)[2])

\* for (path, required) in self.files: parse, `?`, deep_merge
RECURSIVE merge_files(_, _, _, _)
merge_files(b, fl, rd, feats) ==
    LET layer(parsed, rd2) ==
            IF ~parsed.ok THEN [base |-> b, error |-> parsed, reads |-> rd2]
            ELSE merge_files(IF parsed.kind = "None" THEN b
                             ELSE deep_merge(b, parsed.value),
                             Tail(fl), rd2, feats)
        entry(path, required) ==
            layer(parse_file(path, required, FileSystem[path], feats),
                  Append(rd, <<"parse_file", path>>))
    IN IF fl = <<>> THEN [base |-> b, error |-> OkNone, reads |-> rd]
       ELSE entry(Head(fl)[1], Head(fl)[2])

\* if let Some(prefix) = &self.env_prefix: env_to_value, merged when non-empty
merge_env(b, prefix, separator, vs) ==
    LET layer(env_value) ==
            IF IsObject(env_value) /\ DOMAIN env_value.v # {}
            THEN deep_merge(b, env_value)
            ELSE b
    IN IF prefix = NoString THEN b
       ELSE layer(env_to_value(vs, prefix, separator))

\* for (field_path, env_var) in &self.env_mappings: var, coerce, insert_nested
RECURSIVE merge_mappings(_, _, _)
merge_mappings(b, maps, vs) ==
    LET mapping(field_path, value) ==
            IF value # NoString /\ IsObject(b)
            THEN Object(insert_nested(b.v, Split(field_path, <<".">>),
                                      coerce_value(value)))
            ELSE b
    IN IF maps = <<>> THEN b
       ELSE merge_mappings(mapping(Head(maps)[1], env_var(vs, Head(maps)[2])),
                           Tail(maps), vs)

\* OriginTracker::track_value(value, ""): every leaf path of the layer is
\* recorded with the file of the layer, replacing an earlier record
track_value(tracked, value, path) ==
    LET record(leaves) ==
            {r \in tracked : r[1] \notin leaves} \cup {<<p, path>> : p \in leaves}
    IN record(NonMapPaths(value))

\* OriginTracker::get_file_source(path): the file recorded, NoString for None
get_file_source(tracked, field_path) ==
    IF \E r \in tracked : r[1] = field_path
    THEN (CHOOSE r \in tracked : r[1] = field_path)[2]
    ELSE NoString

\* self.origins over the file loop of merge: add_source and track_value for
\* every file that parsed, up to the first failing file
RECURSIVE track_files(_, _, _)
track_files(tracked, fl, feats) ==
    LET layer(path, parsed) ==
            IF ~parsed.ok THEN tracked
            ELSE track_files(IF parsed.kind = "None" THEN tracked
                             ELSE track_value(tracked, parsed.value, path),
                             Tail(fl), feats)
        entry(path, required) ==
            layer(path, parse_file(path, required, FileSystem[path], feats))
    IN IF fl = <<>> THEN tracked ELSE entry(Head(fl)[1], Head(fl)[2])

EnvReads(prefix, maps) ==
    (IF prefix = NoString THEN <<>> ELSE << <<"env_vars", prefix>> >>)
        \o [i \in 1..Len(maps) |-> <<"env_var", maps[i][2]>>]

\* variant: the environment tree is merged before the files
merge_env_before_files(b, fl, prefix, separator, maps, vs, feats) ==
    LET finish(f, merged) ==
            IF ~f.error.ok
            THEN [result |-> f.error, base |-> f.base, reads |-> f.reads]
            ELSE [result |-> OkSome(merged), base |-> merged,
                  reads |-> f.reads \o EnvReads(prefix, maps)]
        after_files(f) == finish(f, merge_mappings(f.base, maps, vs))
    IN after_files(merge_files(merge_env(b, prefix, separator, vs), fl, <<>>, feats))

\* merge(self): the Result, the final self.base and the reads made
merge(b, fl, prefix, separator, maps, vs, feats) ==
    LET finish(f, merged) ==
            IF ~f.error.ok
            THEN [result |-> f.error, base |-> f.base, reads |-> f.reads]
            ELSE [result |-> OkSome(merged), base |-> merged,
                  reads |-> f.reads \o EnvReads(prefix, maps)]
        after_files(f) ==
            finish(f, merge_mappings(merge_env(f.base, prefix, separator, vs),
                                     maps, vs))
    IN after_files(merge_files(b, fl, <<>>, feats))

(***************************************************************************)
(* A ConfigBuilder from new() to merge()                                   *)
(***************************************************************************)
S_VAR_A == <<"V", "A", "R", "_", "A">>
S_VAR_B == <<"V", "A", "R", "_", "B">>
S_VAR_BX == <<"V", "A", "R", "_", "B", "X">>
S_APP_A == S_APP_ \o <<"A">>
S_APP_B == S_APP_ \o <<"B">>
S_APP_B_X == S_APP_ \o <<"B", "_", "X">>

F_a == <<"a">>
F_b == <<"b">>
F_bx == <<"b", ".", "x">>

BuilderEnvironments ==
    { <<>>,
      << <<S_APP_A, <<"7">>>>, <<S_VAR_BX, <<"9">>>>, <<S_VAR_B, <<"t","r","u","e">>>> >>,
      << <<S_APP_B, <<"8">>>>, <<S_VAR_BX, <<"9">>>>, <<S_VAR_A, <<"6">>>> >>,
      << <<S_APP_B_X, <<"8">>>>, <<S_VAR_BX, <<"9">>>> >> }

DefaultsValues ==
    { Object((K_a :> SmallInt(1))
               @@ (K_b :> Object((K_x :> SmallInt(1)) @@ (K_y :> SmallInt(1))))),
      Object(K_b :> SmallInt(1)) }

OptionalPaths == {P_m, P_b}

MappingCandidates == {<<F_a, S_VAR_A>>, <<F_bx, S_VAR_BX>>, <<F_b, S_VAR_B>>}

\* ConfigBuilder::new()
Init ==
    /\ base = Object(EmptyMap)
    /\ files = <<>>
    /\ env_prefix = NoString
    /\ env_separator = <<"_">>
    /\ env_mappings = <<>>
    /\ pc = "building"
    /\ result = NoResult
    /\ reads = <<>>
    /\ features = AllFeatures
    /\ environ \in BuilderEnvironments
    /\ prevBase = NoValue
    /\ overlay = NoValue
    /\ layers = <<>>
    /\ layerIdx = 0
    /\ NoCall
    /\ origins = NoOrigins
    /\ NoConfig

\* builder.defaults_value(value)
DefaultsValue(value) ==
    /\ pc = "building"
    /\ base' = value
    /\ UNCHANGED <<prevBase, overlay, layers, layerIdx, callVars, environ,
                   builderVars, features, origins, configVars>>

\* builder.file(path)
File(path) ==
    /\ pc = "building"
    /\ Len(files) < MaxFiles
    /\ Len(files) + Len(env_mappings) < MaxCalls
    /\ files' = Append(files, <<path, TRUE>>)
    /\ UNCHANGED <<mergeVars, callVars, environ, env_prefix, env_separator,
                   env_mappings, pc, result, reads, features, origins, configVars>>

\* builder.file_optional(path)
FileOptional(path) ==
    /\ pc = "building"
    /\ Len(files) < MaxFiles
    /\ Len(files) + Len(env_mappings) < MaxCalls
    /\ files' = Append(files, <<path, FALSE>>)
    /\ UNCHANGED <<mergeVars, callVars, environ, env_prefix, env_separator,
                   env_mappings, pc, result, reads, features, origins, configVars>>

\* builder.env_prefix(prefix)
EnvPrefix(prefix) ==
    /\ pc = "building"
    /\ env_prefix' = prefix
    /\ UNCHANGED <<mergeVars, callVars, environ, files, env_separator,
                   env_mappings, pc, result, reads, features, origins, configVars>>

\* builder.env_separator(separator)
EnvSeparator(separator) ==
    /\ pc = "building"
    /\ env_separator' = separator
    /\ UNCHANGED <<mergeVars, callVars, environ, files, env_prefix,
                   env_mappings, pc, result, reads, features, origins, configVars>>

\* builder.env_mapping(field_path, env_var)
EnvMapping(field_path, var) ==
    /\ pc = "building"
    /\ Len(env_mappings) < MaxMappings
    /\ Len(files) + Len(env_mappings) < MaxCalls
    /\ env_mappings' = Append(env_mappings, <<field_path, var>>)
    /\ UNCHANGED <<mergeVars, callVars, environ, files, env_prefix,
                   env_separator, pc, result, reads, features, origins, configVars>>

\* builder.merge()
MergeCall ==
    /\ pc = "building"
    /\ LET returns(m) ==
               /\ result' = m.result
               /\ base' = m.base
               /\ reads' = m.reads
       IN returns(merge(base, files, env_prefix, env_separator, env_mappings,
                        environ, features))
    /\ origins' = track_files(origins, files, features)
    /\ prevBase' = base
    /\ pc' = "done"
    /\ UNCHANGED <<overlay, layers, layerIdx, callVars, environ, files,
                   env_prefix, env_separator, env_mappings, features, configVars>>

Next ==
    \/ \E value \in DefaultsValues : DefaultsValue(value)
    \/ \E path \in Paths : File(path)
    \/ \E path \in OptionalPaths : FileOptional(path)
    \/ EnvPrefix(S_APP_)
    \/ EnvSeparator(S_sep2)
    \/ \E mapping \in MappingCandidates : EnvMapping(mapping[1], mapping[2])
    \/ MergeCall

Spec == Init /\ [][Next]_vars

(***************************************************************************)
(* The layers of a builder, in merge order                                 *)
(***************************************************************************)
\* the tree holding only value, at the path parts
RECURSIVE PathTree(_, _)
PathTree(parts, value) ==
    IF parts = <<>> THEN value
    ELSE Object(Head(parts) :> PathTree(Tail(parts), value))

\* the trees of the files that exist and parse, in the order added
RECURSIVE FileLayers(_)
FileLayers(fl) ==
    IF fl = <<>> THEN <<>>
    ELSE LET parsed == parse_file(Head(fl)[1], Head(fl)[2],
                                  FileSystem[Head(fl)[1]], features)
         IN (IF parsed.ok /\ parsed.kind = "Some" THEN <<parsed.value>> ELSE <<>>)
                \o FileLayers(Tail(fl))

\* the prefix-convention tree, when a prefix is set and the tree is not empty
EnvLayers ==
    IF env_prefix = NoString \/ env_to_value(environ, env_prefix, env_separator)
                                    = Object(EmptyMap)
    THEN <<>>
    ELSE <<env_to_value(environ, env_prefix, env_separator)>>

\* one tree per direct mapping whose variable is set
RECURSIVE MappingLayers(_)
MappingLayers(maps) ==
    IF maps = <<>> THEN <<>>
    ELSE (IF env_var(environ, Head(maps)[2]) = NoString THEN <<>>
          ELSE <<PathTree(Split(Head(maps)[1], <<".">>),
                          coerce_value(env_var(environ, Head(maps)[2])))>>)
             \o MappingLayers(Tail(maps))

\* defaults, files and environment tree
LowerLayers == <<prevBase>> \o FileLayers(files) \o EnvLayers

AllLayers == LowerLayers \o MappingLayers(env_mappings)

Related(p, q) == IsPrefixOf(p, q) \/ IsPrefixOf(q, p)

C7_DirectMappingWins ==
    (pc = "done" /\ result.ok) =>
        \A k \in 1..Len(env_mappings) :
            env_var(environ, env_mappings[k][2]) # NoString =>
                GetPath(result.value, Split(env_mappings[k][1], <<".">>))
                    = coerce_value(env_var(environ, env_mappings[k][2]))

(***************************************************************************)
(* C8: a file that does not exist gives FileError::NotFound naming its     *)
(* path when it was added as required, and gives no layer and no error     *)
(* when it was added as optional: the result is the one of the builder     *)
(* without that file.                                                      *)
(***************************************************************************)
Missing(entry) == ~FileSystem[entry[1]].exists

\* the error parse_file is to give for an entry of files, OkNone for none
ExpectedError(entry) ==
    LET path == entry[1]
        file == FileSystem[path]
    IN IF ~file.exists
       THEN IF entry[2] THEN Err("NotFound", path) ELSE OkNone
       ELSE IF ~file.readable THEN Err("ReadError", path)
       ELSE IF to_lowercase(extension(path)) \notin
                  {<<"j","s","o","n">>, <<"t","o","m","l">>, <<"y","a","m","l">>,
                   <<"y","m","l">>}
            THEN Err("UnknownFormat", extension(path))
       ELSE IF file.parsed = NoValue THEN Err("Parse", path)
       ELSE OkNone

Fails(entry) == ~ExpectedError(entry).ok

Without(s, i) == SubSeq(s, 1, i - 1) \o SubSeq(s, i + 1, Len(s))

C8_MissingFile ==
    pc = "done" =>
        \A i \in 1..Len(files) :
            Missing(files[i]) =>
                IF files[i][2]
                THEN (\A j \in 1..(i - 1) : ~Fails(files[j]))
                        => result = Err("NotFound", files[i][1])
                ELSE LET m == merge(prevBase, Without(files, i), env_prefix,
                                    env_separator, env_mappings, environ, features)
                     IN result = m.result /\ base = m.base

\* a missing optional file was skipped after a file that was merged, and
\* the missing file added as required gave NotFound
C8_Witness ==
    /\ pc = "done"
    /\ \E i, j \in 1..Len(files) :
          /\ i < j
          /\ files[i] = <<P_m, FALSE>> /\ files[j] = <<P_m, TRUE>>
    /\ result = Err("NotFound", P_m)
    /\ reads = << <<"parse_file", P_m>>, <<"parse_file", P_m>> >>

(***************************************************************************)
(* C9: when building a file layer fails, merge returns the error of the    *)
(* first failing file in the order added, a single FileError: no later     *)
(* file is read, no environment variable is read and no merged value is    *)
(* returned.                                                               *)
(***************************************************************************)
FirstFailing == CHOOSE i \in 1..Len(files) :
                    Fails(files[i]) /\ \A j \in 1..(i - 1) : ~Fails(files[j])

C9_FileErrorShortCircuits ==
    (pc = "done" /\ \E i \in 1..Len(files) : Fails(files[i])) =>
        /\ ~result.ok
        /\ result = ExpectedError(files[FirstFailing])
        /\ result.kind \in {"NotFound", "ReadError", "UnknownFormat", "Parse"}
        /\ reads = [j \in 1..FirstFailing |-> <<"parse_file", files[j][1]>>]

\* two failing files, a prefix, a mapping and a set variable: the error is
\* the first file's and only that file was read
C9_Witness ==
    /\ pc = "done"
    /\ Len(files) >= 2
    /\ Fails(files[1]) /\ Fails(files[2])
    /\ ExpectedError(files[1]) # ExpectedError(files[2])
    /\ env_prefix # NoString
    /\ environ # <<>>
    /\ \E k \in 1..Len(env_mappings) : env_var(environ, env_mappings[k][2]) # NoString
    /\ result = ExpectedError(files[1])
    /\ reads = << <<"parse_file", files[1][1]>> >>

(***************************************************************************)
(* Errors (lib.rs:294-445, 763-805)                                        *)
(***************************************************************************)
None == [t |-> "None", v |-> 0]

Some(x) == [t |-> "Some", v |-> x]

\* Error::missing (the help text is a function of var)
Error_missing(var) == [t |-> "Missing", v |-> var]

\* Error::extraction(field, expected type, message)
Error_extraction(field, type_name, message) ==
    [t |-> "Extraction", v |-> <<field, type_name, message>>]

Error_Multiple(errors) == [t |-> "Multiple", v |-> errors]

\* variant: a single error is not reported
Error_multiple_drop_single(errors) ==
    IF Len(errors) <= 1 THEN None ELSE Some(Error_Multiple(errors))

\* variant: a single error is wrapped as well
Error_multiple_wrap_single(errors) ==
    IF errors = <<>> THEN None ELSE Some(Error_Multiple(errors))

\* Error::multiple
Error_multiple(errors) ==
    IF errors = <<>> THEN None
    ELSE IF Len(errors) = 1 THEN Some(errors[1])
    ELSE Some(Error_Multiple(errors))

(***************************************************************************)
(* __from_json_value (expand/config.rs:446-715, 1015-1037)                 *)
(***************************************************************************)
\* what the macro knows of a field: g.name(), the branch of
\* generate_field_extractions it takes, g.type_name(), g.default_value()
\* and, for a flatten field, the nested struct
Field(name, kind, type_name, default, nested) ==
    [name |-> name, kind |-> kind, type_name |-> type_name,
     default |-> default, nested |-> nested]

\* ConfigValue::from_json(v).extract::<T>(): Some(parsed) for Ok, None for Err
extract(v, type_name) ==
    CASE type_name = "i64" -> IF v.t = "int" THEN Some(v) ELSE None
      [] type_name = "bool" -> IF v.t = "bool" THEN Some(v) ELSE None
      [] type_name = "String" -> IF v.t = "str" THEN Some(v) ELSE None

\* default.parse::<T>() of the default literal: FromStr of i64, bool, String
parse_default(default, type_name) ==
    CASE type_name = "i64" ->
            IF parse_i64(default) = ParseErr THEN None
            ELSE Some(IntNum(parse_i64(default)))
      [] type_name = "bool" ->
            IF default = S_true THEN Some(Bool(TRUE))
            ELSE IF default = S_false THEN Some(Bool(FALSE))
            ELSE None
      [] type_name = "String" -> Some(String(default))

M_root == <<"<","r","o","o","t",">">>
M_convert == <<"c","o","n","v","e","r","t">>
M_default == <<"f","a","i","l","e","d"," ","t","o"," ","p","a","r","s","e"," ",
               "d","e","f","a","u","l","t">>
M_expected_string == <<"e","x","p","e","c","t","e","d"," ","s","t","r","i","n","g"," ",
                       "v","a","l","u","e">>

\* the declared structs
N_port == <<"p","o","r","t">>
N_host == <<"h","o","s","t">>
N_debug == <<"d","e","b","u","g">>
N_token == <<"t","o","k","e","n">>
N_db == <<"d","b">>
N_url == <<"u","r","l">>
N_pool == <<"p","o","o","l">>
N_n == <<"n">>
N_key == <<"k","e","y">>
N_level == <<"l","e","v","e","l">>
N_min == <<"m","i","n">>
N_name == <<"n","a","m","e">>

Fields(struct) ==
    CASE struct = "Database" ->
            << Field(N_url, "required", "String", NoString, "None"),
               Field(N_pool, "default", "i64", <<"5">>, "None") >>
      [] struct = "Config" ->
            << Field(N_port, "required", "i64", NoString, "None"),
               Field(N_host, "optional", "String", NoString, "None"),
               Field(N_db, "flatten", "Database", NoString, "Database"),
               Field(N_debug, "default", "bool", S_false, "None"),
               Field(N_token, "secret_string", "SecretString", NoString, "None") >>
      [] struct = "Retry" ->
            << Field(N_n, "default", "i64", <<"x">>, "None"),
               Field(N_key, "secret_box", "i64", NoString, "None") >>
      [] struct = "Service" ->
            << Field(N_level, "default", "String", <<"i">>, "None"),
               Field(N_port, "default", "i64", <<"8">>, "None"),
               Field(N_url, "required", "String", NoString, "None"),
               Field(N_host, "optional", "String", NoString, "None") >>
      [] struct = "Pool" ->
            << Field(N_min, "default", "i64", <<"1">>, "None") >>
      [] struct = "Db" ->
            << Field(N_host, "default", "String", <<"h">>, "None"),
               Field(N_pool, "flatten", "Pool", NoString, "Pool") >>
      [] struct = "Complex" ->
            << Field(N_name, "default", "String", <<"c">>, "None"),
               Field(N_db, "flatten", "Db", NoString, "Db") >>

RECURSIVE from_json_value(_, _)

\* the let of one field: the local it binds and the errors it pushes
extraction(g, obj) ==
    LET ok(local) == [local |-> local, pushed |-> <<>>]
        err(error) == [local |-> None, pushed |-> <<error>>]
        flattened(nested) ==
            IF nested.t = "Ok" THEN ok(Some(nested.v)) ELSE err(nested.v)
        extracted(converted, message) ==
            IF converted = None
            THEN err(Error_extraction(g.name, g.type_name, message))
            ELSE ok(IF g.kind = "optional" THEN Some(converted) ELSE converted)
        branch(present, absent) ==
            IF g.kind = "flatten"
            THEN flattened(from_json_value(g.nested,
                               IF g.name \in DOMAIN obj THEN obj[g.name]
                               ELSE Object(EmptyMap)))
            ELSE IF present
            THEN IF g.kind = "secret_string"
                 THEN extracted(IF obj[g.name].t = "str" THEN Some(obj[g.name])
                                ELSE None,
                                M_expected_string)
                 ELSE extracted(extract(obj[g.name], g.type_name), M_convert)
            ELSE absent
    IN branch(g.name \in DOMAIN obj /\ ~IsNull(obj[g.name]),
              CASE g.kind = "optional" -> ok(Some(None))
                [] g.kind = "default" ->
                     extracted(parse_default(g.default, g.type_name), M_default)
                [] OTHER -> err(Error_missing(g.name)))

\* variant: once an error was pushed the remaining fields are skipped
RECURSIVE field_extractions_fail_fast(_, _, _)
field_extractions_fail_fast(fields, obj, acc) ==
    IF fields = <<>> \/ acc.errors # <<>> THEN acc
    ELSE LET e == extraction(Head(fields), obj)
         IN field_extractions_fail_fast(Tail(fields), obj,
                [locals |-> Append(acc.locals, e.local),
                 errors |-> acc.errors \o e.pushed,
                 evaluated |-> Append(acc.evaluated, Head(fields).name)])

\* variant: a later error replaces the recorded ones
RECURSIVE field_extractions_keep_last(_, _, _)
field_extractions_keep_last(fields, obj, acc) ==
    IF fields = <<>> THEN acc
    ELSE LET e == extraction(Head(fields), obj)
         IN field_extractions_keep_last(Tail(fields), obj,
                [locals |-> Append(acc.locals, e.local),
                 errors |-> IF e.pushed = <<>> THEN acc.errors ELSE e.pushed,
                 evaluated |-> Append(acc.evaluated, Head(fields).name)])

\* #field_extractions: the lets in declaration order, each pushing to __errors
RECURSIVE field_extractions(_, _, _)
field_extractions(fields, obj, acc) ==
    IF fields = <<>> THEN acc
    ELSE LET e == extraction(Head(fields), obj)
         IN field_extractions(Tail(fields), obj,
                [locals |-> Append(acc.locals, e.local),
                 errors |-> acc.errors \o e.pushed,
                 evaluated |-> Append(acc.evaluated, Head(fields).name)])

\* #field_assignments: .flatten() for an optional field, .unwrap() otherwise
field_assignment(g, local) ==
    IF g.kind = "optional"
    THEN IF local = None THEN None ELSE local.v
    ELSE IF local = None THEN [t |-> "panic", v |-> 0] ELSE local.v

\* the result carries, next to Ok(Self) or Err(error), the __errors vector
\* and the fields whose extraction ran
from_json_value(struct, value) ==
    IF ~IsObject(value)
    THEN [t |-> "Err", v |-> Error_extraction(M_root, "object", M_root),
          errors |-> <<>>, evaluated |-> <<>>]
    ELSE LET returns(t, v, x) ==
                 [t |-> t, v |-> v, errors |-> x.errors, evaluated |-> x.evaluated]
             construct(fields, assigned, x) ==
                 IF \E i \in 1..Len(fields) : assigned[i] = [t |-> "panic", v |-> 0]
                 THEN returns("panic", 0, x)
                 ELSE returns("Ok",
                          [t |-> "struct",
                           v |-> [n \in {fields[i].name : i \in 1..Len(fields)} |->
                                     assigned[CHOOSE i \in 1..Len(fields) :
                                                  fields[i].name = n]]],
                          x)
             extracted(fields, x, error) ==
                 IF error # None THEN returns("Err", error.v, x)
                 ELSE construct(fields,
                          [i \in 1..Len(fields) |->
                              field_assignment(fields[i], x.locals[i])],
                          x)
             run(fields, x) == extracted(fields, x, Error_multiple(x.errors))
             declared(fields) ==
                 run(fields,
                     field_extractions(fields, value.v,
                         [locals |-> <<>>, errors |-> <<>>, evaluated |-> <<>>]))
         IN declared(Fields(struct))

(***************************************************************************)
(* Specification: __from_json_value of a declared struct on a value        *)
(***************************************************************************)
FieldInputs == {NoValue, Null, SmallInt(1), String(<<"x">>), Bool(TRUE)}

\* the object holding the entries of f that are present
ObjectOf(f) == Object([k \in {n \in DOMAIN f : f[n] # NoValue} |-> f[k]])

DatabaseInputs ==
    {ObjectOf(f) : f \in [{N_url, N_pool} -> FieldInputs]}
        \cup {NoValue, Null, SmallInt(1)}

ConfigInputs ==
    {ObjectOf(f @@ (N_db :> d)) :
        f \in [{N_port, N_host, N_debug, N_token} -> FieldInputs],
        d \in DatabaseInputs}

RetryInputs == {ObjectOf(f) : f \in [{N_n, N_key} -> FieldInputs]}

ExtractInputs ==
    ({"Config"} \X (ConfigInputs \cup {Null, SmallInt(1)}))
        \cup ({"Retry"} \X RetryInputs)
        \cup ({"Database"} \X DatabaseInputs \ {<<"Database", NoValue>>})

InitExtract ==
    /\ arg \in ExtractInputs
    /\ ret = NoValue
    /\ NoMerge
    /\ environ = <<>>
    /\ NoBuilder
    /\ origins = NoOrigins
    /\ NoConfig

\* ret = <struct>::__from_json_value(value)
FromJsonValue ==
    /\ ret = NoValue
    /\ ret' = from_json_value(arg[1], arg[2])
    /\ UNCHANGED <<arg, mergeVars, environ, builderVars, features, origins, configVars>>

NextExtract == FromJsonValue

SpecExtract == InitExtract /\ [][NextExtract]_vars

(***************************************************************************)
(* C10: __from_json_value of an object evaluates every declared field,     *)
(* also after an earlier field failed, and records one error per failing   *)
(* field in declaration order: Missing for a required field that is absent *)
(* or null, an extraction error for a present value that does not convert, *)
(* nothing for an absent optional field, which becomes None, and nothing   *)
(* for an absent field with a default, which takes the parsed default.     *)
(***************************************************************************)
Absent(g, obj) == g.name \notin DOMAIN obj \/ obj[g.name] = Null

Converts(g, obj) ==
    IF g.kind = "secret_string" THEN obj[g.name].t = "str"
    ELSE extract(obj[g.name], g.type_name) # None

\* kind and field of a recorded error; a Multiple is kept whole
Recorded(e) ==
    IF e.t = "Missing" THEN <<"Missing", e.v>>
    ELSE IF e.t = "Extraction" THEN <<"Extraction", e.v[1]>>
    ELSE <<e.t, e.v>>

\* the kind and field of the one error a field is to record, <<>> for none
ExpectedError10(g, obj) ==
    IF g.kind = "flatten"
    THEN LET nested == from_json_value(g.nested,
                           IF g.name \in DOMAIN obj THEN obj[g.name]
                           ELSE Object(EmptyMap))
         IN IF nested.t = "Ok" THEN <<>> ELSE <<Recorded(nested.v)>>
    ELSE IF ~Absent(g, obj)
    THEN IF Converts(g, obj) THEN <<>> ELSE << <<"Extraction", g.name>> >>
    ELSE IF g.kind = "optional" THEN <<>>
    ELSE IF g.default = NoString THEN << <<"Missing", g.name>> >>
    ELSE IF parse_default(g.default, g.type_name) # None THEN <<>>
    ELSE << <<"Extraction", g.name>> >>

RECURSIVE ExpectedErrors10(_, _)
ExpectedErrors10(fields, obj) ==
    IF fields = <<>> THEN <<>>
    ELSE ExpectedError10(Head(fields), obj) \o ExpectedErrors10(Tail(fields), obj)

C10_EveryFieldEvaluated ==
    (ret # NoValue /\ IsObject(arg[2])) =>
        LET fields == Fields(arg[1])
            obj == arg[2].v
        IN /\ ret.evaluated = [i \in 1..Len(fields) |-> fields[i].name]
           /\ [i \in 1..Len(ret.errors) |-> Recorded(ret.errors[i])]
                  = ExpectedErrors10(fields, obj)
           /\ ret.t = "Ok" =>
                \A i \in 1..Len(fields) :
                    LET g == fields[i]
                    IN /\ (g.kind = "optional" /\ Absent(g, obj))
                            => ret.v.v[g.name] = None
                       /\ (g.kind = "default" /\ Absent(g, obj))
                            => Some(ret.v.v[g.name])
                                   = parse_default(g.default, g.type_name)

\* the first and the last field of Config failed, the optional field is
\* absent, and both errors are recorded in declaration order
C10_Witness ==
    /\ ret # NoValue
    /\ arg[1] = "Config"
    /\ IsObject(arg[2])
    /\ N_host \notin DOMAIN arg[2].v
    /\ N_debug \notin DOMAIN arg[2].v
    /\ ret.t = "Err"
    /\ ret.errors = << Error_missing(N_port),
                       Error_extraction(N_token, "SecretString", M_expected_string) >>
    /\ ret.evaluated = <<N_port, N_host, N_db, N_debug, N_token>>

\* a struct built with an absent optional field and an absent defaulted field
C10_WitnessOk ==
    /\ ret # NoValue
    /\ arg[1] = "Config"
    /\ ret.t = "Ok"
    /\ N_host \notin DOMAIN arg[2].v
    /\ N_debug \notin DOMAIN arg[2].v
    /\ ret.v.v[N_host] = None
    /\ ret.v.v[N_debug] = Bool(FALSE)

(***************************************************************************)
(* C11: Error::multiple gives None for an empty list (the struct is then   *)
(* constructed), the element itself for a one-element list, and one        *)
(* Multiple holding exactly the list, in order, for two or more errors;    *)
(* two missing required fields give Multiple of their two Missing errors   *)
(* in declaration order.                                                   *)
(***************************************************************************)
C11_MultipleCollapses ==
    (ret # NoValue /\ IsObject(arg[2])) =>
        /\ ret.errors = <<>> => ret.t # "Err"
        /\ Len(ret.errors) = 1 => (ret.t = "Err" /\ ret.v = ret.errors[1])
        /\ Len(ret.errors) >= 2 =>
              /\ ret.t = "Err"
              /\ ret.v.t = "Multiple"
              /\ ret.v.v = ret.errors
        /\ ret.t = "Err" => ret.errors # <<>>

\* port and token of Config are missing and nothing else fails
C11_Witness ==
    /\ ret # NoValue
    /\ arg[1] = "Config"
    /\ IsObject(arg[2])
    /\ ret.t = "Err"
    /\ ret.v = Error_Multiple(<<Error_missing(N_port), Error_missing(N_token)>>)

\* one missing field is surfaced as it is
C11_WitnessSingle ==
    /\ ret # NoValue
    /\ arg[1] = "Config"
    /\ IsObject(arg[2])
    /\ ret.v = Error_missing(N_port)

(***************************************************************************)
(* from_config and from_config_with_sources (expand/config.rs:64-441,      *)
(* 717-813, 816-1002)                                                      *)
(***************************************************************************)
V_ENV == <<"E","N","V">>
V_LVL == <<"L","V","L">>
V_PORT == <<"P","O","R","T">>
V_URL == <<"U","R","L">>
V_HOST == <<"H","O","S","T">>
V_MIN == <<"M","I","N">>
V_NAME == <<"N","A","M","E">>

S_dev == <<"d","e","v">>
S_prod == <<"p","r","o","d">>
S_qa == <<"q","a">>

\* g.env_var_name() of the regular fields: the var of #[env(var = "...")]
env_var_name(struct, name) ==
    CASE struct = "Service" /\ name = N_level -> V_LVL
      [] struct = "Service" /\ name = N_port -> V_PORT
      [] struct = "Service" /\ name = N_url -> V_URL
      [] struct = "Service" /\ name = N_host -> V_HOST
      [] struct = "Pool" /\ name = N_min -> V_MIN
      [] struct = "Db" /\ name = N_host -> V_HOST
      [] struct = "Complex" /\ name = N_name -> V_NAME
      [] OTHER -> NoString

\* g.profile_config(): the #[profile(...)] arms of a field, <<>> for None
profile_config(struct, name) ==
    CASE struct = "Service" /\ name = N_level -> << <<S_dev, <<"d">>>> >>
      [] struct = "Service" /\ name = N_url ->
            << <<S_dev, <<"l">>>>, <<S_prod, <<"p">>>> >>
      [] struct = "Pool" /\ name = N_min -> << <<S_dev, <<"2">>>> >>
      [] OTHER -> <<>>

\* g.flatten_prefix().unwrap_or("") of a flatten field
flatten_prefix(struct, name) ==
    CASE struct = "Complex" /\ name = N_db -> <<"D","B","_">>
      [] struct = "Db" /\ name = N_pool -> <<"P","L","_">>
      [] OTHER -> <<>>

\* EnvConfigAttr: prefix, files, dotenv, profile_env, profiles
EnvConfigAttr(prefix, fl, dotenv, profile_env, profiles) ==
    [prefix |-> prefix, files |-> fl, dotenv |-> dotenv,
     profile_env |-> profile_env, profiles |-> profiles]

\* the arm of `match __profile` that is taken: Some(literal) or None
profile_arm(arms, p) ==
    IF \E i \in 1..Len(arms) : arms[i][1] = p
    THEN Some(arms[CHOOSE i \in 1..Len(arms) :
                       arms[i][1] = p /\ \A j \in 1..(i - 1) : arms[j][1] # p][2])
    ELSE None

\* #default_entries: the coerced default of every regular field that has one
RECURSIVE default_entries(_, _, _)
default_entries(struct, fields, map) ==
    LET entry(g) ==
            IF g.kind # "flatten" /\ g.default # NoString
            THEN MapInsert(map, g.name, coerce_value(g.default))
            ELSE map
    IN IF fields = <<>> THEN map
       ELSE default_entries(struct, Tail(fields), entry(Head(fields)))

\* #profile_entries: the coerced override of every regular field that has an
\* arm for the profile
RECURSIVE profile_entries(_, _, _, _)
profile_entries(struct, fields, p, map) ==
    LET insert(g, arm) ==
            IF g.kind # "flatten" /\ p # NoString /\ arm # None
            THEN MapInsert(map, g.name, coerce_value(arm.v))
            ELSE map
        entry(g) == insert(g, profile_arm(profile_config(struct, g.name), p))
    IN IF fields = <<>> THEN map
       ELSE profile_entries(struct, Tail(fields), p, entry(Head(fields)))

RECURSIVE config_defaults(_)
\* #flatten_entries: the __config_defaults() of every flatten field
RECURSIVE flatten_entries(_, _)
flatten_entries(fields, map) ==
    LET entry(g) ==
            IF g.kind = "flatten"
            THEN MapInsert(map, g.name, config_defaults(g.nested))
            ELSE map
    IN IF fields = <<>> THEN map
       ELSE flatten_entries(Tail(fields), entry(Head(fields)))

\* <struct>::__config_defaults()
config_defaults(struct) ==
    Object(flatten_entries(Fields(struct),
               default_entries(struct, Fields(struct), EmptyMap)))

RECURSIVE config_profile_defaults(_, _)
\* #flatten_profile_entries: __config_profile_defaults of every flatten field
RECURSIVE flatten_profile_entries(_, _, _)
flatten_profile_entries(fields, p, map) ==
    LET entry(g) ==
            IF g.kind = "flatten"
            THEN MapInsert(map, g.name, config_profile_defaults(g.nested, p))
            ELSE map
    IN IF fields = <<>> THEN map
       ELSE flatten_profile_entries(Tail(fields), p, entry(Head(fields)))

\* <struct>::__config_profile_defaults(__profile)
config_profile_defaults(struct, p) ==
    Object(flatten_profile_entries(Fields(struct), p,
               profile_entries(struct, Fields(struct), p,
                   default_entries(struct, Fields(struct), EmptyMap))))

\* <struct>::__env_mappings(): <<field path, variable>> of every field, the
\* nested ones of a flatten field under the name of the field
RECURSIVE env_mappings_of(_, _)
env_mappings_of(struct, fields) ==
    LET nested(g, pairs) ==
            [i \in 1..Len(pairs) |->
                <<g.name \o <<".">> \o pairs[i][1], pairs[i][2]>>]
        regular(g, var) ==
            IF var = NoString THEN <<>> ELSE << <<g.name, var>> >>
        pair(g) ==
            IF g.kind = "flatten"
            THEN nested(g, env_mappings_of(g.nested, Fields(g.nested)))
            ELSE regular(g, env_var_name(struct, g.name))
    IN IF fields = <<>> THEN <<>>
       ELSE pair(Head(fields)) \o env_mappings_of(struct, Tail(fields))

\* #env_mapping_calls: the (field_path, env_var) pairs from_config registers
RECURSIVE env_mapping_calls(_, _)
env_mapping_calls(struct, fields) ==
    LET nested(g, pairs) ==
            [i \in 1..Len(pairs) |->
                <<g.name \o <<".">> \o pairs[i][1],
                  flatten_prefix(struct, g.name) \o pairs[i][2]>>]
        regular(g, var) ==
            IF var = NoString THEN <<>> ELSE << <<g.name, var>> >>
        call(g) ==
            IF g.kind = "flatten"
            THEN nested(g, env_mappings_of(g.nested, Fields(g.nested)))
            ELSE regular(g, env_var_name(struct, g.name))
    IN IF fields = <<>> THEN <<>>
       ELSE call(Head(fields)) \o env_mapping_calls(struct, Tail(fields))

\* #profile_defaults of from_config: the override of every regular field and
\* the __config_profile_defaults of every flatten field, in field order
RECURSIVE profile_defaults(_, _, _, _)
profile_defaults(struct, fields, p, map) ==
    LET insert(g, arm) ==
            IF p # NoString /\ arm # None
            THEN MapInsert(map, g.name, coerce_value(arm.v))
            ELSE map
        entry(g) ==
            IF g.kind = "flatten"
            THEN MapInsert(map, g.name, config_profile_defaults(g.nested, p))
            ELSE insert(g, profile_arm(profile_config(struct, g.name), p))
    IN IF fields = <<>> THEN map
       ELSE profile_defaults(struct, Tail(fields), p, entry(Head(fields)))

\* variant: the overrides are inserted first and the macro defaults after
defaults_setup_profile_first(struct, attr, p) ==
    LET overrides(map) ==
            IF attr.profile_env = NoString THEN map
            ELSE profile_defaults(struct, Fields(struct), p, map)
    IN Object(flatten_entries(Fields(struct),
                  default_entries(struct, Fields(struct), overrides(EmptyMap))))

\* #defaults_setup: the value given to builder.defaults_value (an empty
\* object is what ConfigBuilder::new() holds when the setup is left out)
defaults_setup(struct, attr, p) ==
    LET overrides(map) ==
            IF attr.profile_env = NoString THEN map
            ELSE profile_defaults(struct, Fields(struct), p, map)
    IN Object(overrides(flatten_entries(Fields(struct),
                  default_entries(struct, Fields(struct), EmptyMap))))

\* variant: a name that is not in the allowed list is let through
profile_valid_unchecked(attr, p) ==
    attr.profiles = None \/ p = NoString \/ Len(attr.profiles.v) >= 0

\* #profile_setup validation: the allowed list, when given, has the profile
profile_valid(attr, p) ==
    \/ attr.profiles = None
    \/ p = NoString
    \/ \E i \in 1..Len(attr.profiles.v) : attr.profiles.v[i] = p

\* Error::invalid_profile(profile, var, valid_profiles)
Error_invalid_profile(p, var, valid_profiles) ==
    [t |-> "InvalidProfile", v |-> <<p, var, valid_profiles>>]

\* From<FileError> for Error
Error_File(file_error) == [t |-> "File", v |-> file_error]

\* dotenvy::dotenv(): every entry of .env whose variable is not set yet is
\* set, in file order
RECURSIVE dotenv_load(_, _)
dotenv_load(vs, entries) ==
    LET set(name, value) ==
            IF env_var(vs, name) = NoString THEN Append(vs, <<name, value>>)
            ELSE vs
    IN IF entries = <<>> THEN vs
       ELSE dotenv_load(set(Head(entries)[1], Head(entries)[2]), Tail(entries))

\* #env_var_names: the variables of the fields that have one
env_var_names(struct) ==
    {env_var_name(struct, Fields(struct)[i].name) : i \in 1..Len(Fields(struct))}
        \ {NoString}

\* variant: the default of a field is looked at before the profile
Source_of_default_first(var_set, loaded, pre_set, file, p, has_profile, has_default) ==
    IF var_set
    THEN IF loaded /\ ~pre_set THEN <<"DotenvFile">> ELSE <<"Environment">>
    ELSE IF file # NoString THEN <<"ConfigFile", file>>
    ELSE IF has_default THEN <<"Default">>
    ELSE IF p # NoString /\ has_profile THEN <<"Profile", p>>
    ELSE <<"NotSet">>

\* Source of a field, as the chain of source_entries decides it
Source_of(var_set, loaded, pre_set, file, p, has_profile, has_default) ==
    IF var_set
    THEN IF loaded /\ ~pre_set THEN <<"DotenvFile">> ELSE <<"Environment">>
    ELSE IF file # NoString THEN <<"ConfigFile", file>>
    ELSE IF p # NoString /\ has_profile THEN <<"Profile", p>>
    ELSE IF has_default THEN <<"Default">>
    ELSE <<"NotSet">>

\* the key path of a dotted field path
KeyPath(field_path) == Split(field_path, <<".">>)

\* a sequence holding the elements of a finite set, each once
RECURSIVE SeqOf(_)
SeqOf(S) ==
    IF S = {} THEN <<>>
    ELSE LET x == CHOOSE x \in S : TRUE IN <<x>> \o SeqOf(S \ {x})

\* the dotted path of a key path
RECURSIVE Dotted(_)
Dotted(keys) ==
    IF Len(keys) = 1 THEN keys[1] ELSE keys[1] \o <<".">> \o Dotted(Tail(keys))

\* the source entry of a regular field
regular_source_entry(struct, g, vs, tracked, p, pre, dotenv_loaded) ==
    LET entry(var) ==
            <<g.name, var,
              Source_of(var # NoString /\ env_var(vs, var) # NoString,
                        dotenv_loaded, var \in pre,
                        get_file_source(tracked, <<g.name>>), p,
                        profile_config(struct, g.name) # <<>>,
                        g.default # NoString)>>
    IN entry(env_var_name(struct, g.name))

\* the source entries of a flatten field: one for every nested mapping, then
\* one for every other tracked path under the field
flatten_source_entries(struct, g, vs, tracked, pre, dotenv_loaded) ==
    LET mapped(pairs) ==
            [i \in 1..Len(pairs) |->
                LET full_path == g.name \o <<".">> \o pairs[i][1]
                    expected_env_var == flatten_prefix(struct, g.name) \o pairs[i][2]
                IN <<full_path, expected_env_var,
                     Source_of(env_var(vs, expected_env_var) # NoString,
                               dotenv_loaded, expected_env_var \in pre,
                               get_file_source(tracked, KeyPath(full_path)),
                               NoString, FALSE, FALSE)>>]
        others(pairs) ==
            SeqOf({<<Dotted(r[1]), Dotted(r[1]), <<"ConfigFile", r[2]>>>> :
                      r \in {r \in tracked :
                                /\ r[1] # <<>>
                                /\ r[1][1] = g.name
                                /\ \A i \in 1..Len(pairs) :
                                       KeyPath(g.name \o <<".">> \o pairs[i][1])
                                           # r[1]}})
        both(pairs) == mapped(pairs) \o others(pairs)
    IN both(env_mappings_of(g.nested, Fields(g.nested)))

\* #source_entries: the entries added to __sources, in field order
RECURSIVE source_entries(_, _, _, _, _, _, _)
source_entries(struct, fields, vs, tracked, p, pre, dotenv_loaded) ==
    LET entries(g) ==
            IF g.kind = "flatten"
            THEN flatten_source_entries(struct, g, vs, tracked, pre, dotenv_loaded)
            ELSE << regular_source_entry(struct, g, vs, tracked, p, pre,
                                         dotenv_loaded) >>
    IN IF fields = <<>> THEN <<>>
       ELSE entries(Head(fields))
                \o source_entries(struct, Tail(fields), vs, tracked, p, pre,
                                  dotenv_loaded)

(***************************************************************************)
(* Specification: from_config / from_config_with_sources of a declared     *)
(* struct, statement by statement                                          *)
(***************************************************************************)
\* the environment holding the variables of order that f sets, in that order
RECURSIVE EnvOf(_, _)
EnvOf(f, order) ==
    IF order = <<>> THEN <<>>
    ELSE (IF f[Head(order)] = NoString THEN <<>>
          ELSE << <<Head(order), f[Head(order)]>> >>) \o EnvOf(f, Tail(order))

ServiceEnvironments ==
    {EnvOf((V_ENV :> e) @@ (V_LVL :> l) @@ (V_URL :> u) @@ (V_PORT :> n),
           <<V_ENV, V_LVL, V_URL, V_PORT>>) :
        e \in {NoString, S_dev, S_prod, S_qa},
        l \in {NoString, <<"e">>, <<"0","7">>},
        u \in {NoString, <<"e">>},
        n \in {NoString, <<"9">>, <<"e">>}}

ServiceDotenvFiles ==
    { <<>>,
      << <<V_LVL, <<"v">>>> >>,
      << <<V_URL, <<"v">>>>, <<V_ENV, S_dev>> >> }

ServiceFiles ==
    { <<>>,
      << <<P_c, FALSE>> >>,
      << <<P_d, FALSE>> >>,
      << <<P_c, TRUE>>, <<P_d, FALSE>> >>,
      << <<P_d, TRUE>>, <<P_c, TRUE>> >>,
      << <<P_c, TRUE>>, <<P_e, TRUE>> >>,
      << <<P_m, TRUE>> >>,
      << <<P_s, FALSE>> >> }

ServiceAttrs ==
    {EnvConfigAttr(NoString, fl, dotenv, pr[1], pr[2]) :
        fl \in ServiceFiles, dotenv \in BOOLEAN,
        pr \in { <<NoString, None>>, <<V_ENV, None>>,
                 <<V_ENV, Some(<<S_dev, S_prod>>)>> }}

V_C_ == <<"C","_">>
V_C_DB_PL_MIN == <<"C","_","D","B","_","P","L","_","M","I","N">>
V_DB_MIN == <<"D","B","_","M","I","N">>
V_DB_HOST == <<"D","B","_","H","O","S","T">>

V_C_NAME == <<"C","_","N","A","M","E">>

ComplexEnvironments ==
    {EnvOf((V_ENV :> e) @@ (V_C_DB_PL_MIN :> c) @@ (V_DB_MIN :> m)
               @@ (V_DB_HOST :> h) @@ (V_NAME :> n) @@ (V_C_NAME :> q),
           <<V_ENV, V_C_DB_PL_MIN, V_DB_MIN, V_DB_HOST, V_NAME, V_C_NAME>>) :
        e \in {NoString, S_dev},
        c \in {NoString, <<"5">>},
        m \in {NoString, <<"6">>},
        h \in {NoString, <<"e">>},
        n \in {NoString, <<"e">>},
        q \in {NoString, <<"q">>}}

ComplexAttrs ==
    {EnvConfigAttr(V_C_, fl, dotenv, pr[1], pr[2]) :
        fl \in { <<>>, << <<P_n, FALSE>> >> }, dotenv \in BOOLEAN,
        pr \in { <<NoString, None>>, <<V_ENV, None>> }}

ComplexDotenvFiles ==
    { <<>>,
      << <<V_DB_HOST, <<"v">>>>, <<V_NAME, <<"v">>>> >> }

Entries == {"from_config", "from_config_with_sources"}

\* what the call returned: Ok(config) or Err(error), with the __errors vector
\* and the evaluated fields of __from_json_value when it ran
Returned(t, v) == [t |-> t, v |-> v, errors |-> <<>>, evaluated |-> <<>>]

InitConfig ==
    /\ \/ /\ arg \in {[struct |-> "Service", attr |-> a, entry |-> e] :
                         a \in ServiceAttrs, e \in Entries}
          /\ environ \in ServiceEnvironments
          /\ dotenv_file \in ServiceDotenvFiles
       \/ /\ arg \in {[struct |-> "Complex", attr |-> a, entry |-> e] :
                         a \in ComplexAttrs, e \in Entries}
          /\ environ \in ComplexEnvironments
          /\ dotenv_file \in ComplexDotenvFiles
    /\ pc = IF arg.entry = "from_config" THEN "dotenv_load" ELSE "pre_dotenv_collection"
    /\ ret = NoValue
    /\ NoMerge
    /\ features = AllFeatures
    /\ files = <<>>
    /\ env_prefix = NoString
    /\ env_separator = <<"_">>
    /\ env_mappings = <<>>
    /\ result = NoResult
    /\ reads = <<>>
    /\ origins = NoOrigins
    /\ pre_dotenv_vars = {}
    /\ profile = NoString
    /\ sources = <<>>

\* let __pre_dotenv_vars = [#env_var_names] filtered by std::env::var(..).is_ok()
PreDotenvCollection ==
    /\ pc = "pre_dotenv_collection"
    /\ pre_dotenv_vars' =
           {v \in env_var_names(arg.struct) : env_var(environ, v) # NoString}
    /\ pc' = "dotenv_load"
    /\ UNCHANGED <<mergeVars, callVars, environ, files, env_prefix, env_separator,
                   env_mappings, result, reads, features, origins, dotenv_file,
                   profile, sources>>

\* #dotenv_load
DotenvLoad ==
    /\ pc = "dotenv_load"
    /\ environ' = IF arg.attr.dotenv THEN dotenv_load(environ, dotenv_file)
                  ELSE environ
    /\ pc' = "profile_setup"
    /\ UNCHANGED <<mergeVars, callVars, files, env_prefix, env_separator,
                   env_mappings, result, reads, features, origins, configVars>>

\* #profile_setup: __profile = std::env::var(profile_env).ok(), validated
ProfileSetup ==
    /\ pc = "profile_setup"
    /\ LET setup(p) ==
               /\ profile' = p
               /\ IF profile_valid(arg.attr, p)
                  THEN /\ pc' = "builder"
                       /\ ret' = ret
                  ELSE /\ pc' = "returned"
                       /\ ret' = Returned("Err",
                                     Error_invalid_profile(p, arg.attr.profile_env,
                                                           arg.attr.profiles.v))
       IN setup(IF arg.attr.profile_env = NoString THEN NoString
                ELSE env_var(environ, arg.attr.profile_env))
    /\ UNCHANGED <<mergeVars, arg, environ, files, env_prefix, env_separator,
                   env_mappings, result, reads, features, origins, dotenv_file,
                   pre_dotenv_vars, sources>>

\* ConfigBuilder::new(), #defaults_setup, #file_loads, #env_prefix,
\* #env_mappings
BuilderSetup ==
    /\ pc = "builder"
    /\ base' = defaults_setup(arg.struct, arg.attr, profile)
    /\ files' = arg.attr.files
    /\ env_prefix' = arg.attr.prefix
    /\ env_mappings' = env_mapping_calls(arg.struct, Fields(arg.struct))
    /\ pc' = "into_value"
    /\ UNCHANGED <<prevBase, overlay, layers, layerIdx, callVars, environ,
                   env_separator, result, reads, features, origins, configVars>>

\* let (__value, __origins) = builder.into_value()?
IntoValue ==
    /\ pc = "into_value"
    /\ LET returns(m) ==
               /\ result' = m.result
               /\ base' = m.base
               /\ reads' = m.reads
               /\ IF m.result.ok
                  THEN /\ pc' = "from_json_value"
                       /\ ret' = ret
                  ELSE /\ pc' = "returned"
                       /\ ret' = Returned("Err", Error_File(m.result))
       IN returns(merge(base, files, env_prefix, env_separator, env_mappings,
                        environ, features))
    /\ origins' = track_files(origins, files, features)
    /\ prevBase' = base
    /\ UNCHANGED <<overlay, layers, layerIdx, arg, environ, files, env_prefix,
                   env_separator, env_mappings, features, configVars>>

\* Self::__from_json_value(__value), with `?` in from_config_with_sources
FromJsonValueCall ==
    /\ pc = "from_json_value"
    /\ LET returns(r) ==
               /\ ret' = r
               /\ pc' = IF arg.entry = "from_config_with_sources" /\ r.t = "Ok"
                        THEN "source_entries" ELSE "returned"
       IN returns(from_json_value(arg.struct, base))
    /\ UNCHANGED <<mergeVars, arg, environ, files, env_prefix, env_separator,
                   env_mappings, result, reads, features, origins, configVars>>

\* #source_entries and Ok((__config, __sources))
SourceEntries ==
    /\ pc = "source_entries"
    /\ sources' = source_entries(arg.struct, Fields(arg.struct), environ, origins,
                                 profile, pre_dotenv_vars, arg.attr.dotenv)
    /\ pc' = "returned"
    /\ UNCHANGED <<mergeVars, callVars, environ, files, env_prefix, env_separator,
                   env_mappings, result, reads, features, origins, dotenv_file,
                   pre_dotenv_vars, profile>>

NextConfig ==
    \/ PreDotenvCollection
    \/ DotenvLoad
    \/ ProfileSetup
    \/ BuilderSetup
    \/ IntoValue
    \/ FromJsonValueCall
    \/ SourceEntries

SpecConfig == InitConfig /\ [][NextConfig]_vars

(***************************************************************************)
(* What the sources of a call hold for a top-level field                   *)
(***************************************************************************)
\* the parsed trees of the files of the call that exist, in declared order
RECURSIVE ParsedFiles(_)
ParsedFiles(fl) ==
    IF fl = <<>> THEN <<>>
    ELSE (IF FileSystem[Head(fl)[1]].exists
          THEN <<FileSystem[Head(fl)[1]].parsed>> ELSE <<>>)
             \o ParsedFiles(Tail(fl))

\* the value the files give at a key path: that of the last file that has
\* the path (NoValue when no file has it)
RECURSIVE FileValue(_, _)
FileValue(trees, keys) ==
    IF trees = <<>> THEN NoValue
    ELSE IF GetPath(trees[Len(trees)], keys) # NoValue
         THEN GetPath(trees[Len(trees)], keys)
         ELSE FileValue(SubSeq(trees, 1, Len(trees) - 1), keys)

\* the call returned Ok for the struct
ResolvedOk(struct) ==
    /\ pc = "returned"
    /\ arg.struct = struct
    /\ ret # NoValue
    /\ ret.t = "Ok"

\* the override literal of the field for the selected profile, None if none
OverrideOf(g) ==
    IF profile = NoString THEN None
    ELSE profile_arm(profile_config(arg.struct, g.name), profile)

\* the field as it resolves from its generic default alone
FromDefault(g) ==
    IF g.kind = "optional" THEN None
    ELSE parse_default(g.default, g.type_name).v

(***************************************************************************)
(* C12: with a profile selected and an override literal declared for it,   *)
(* a field resolves to the override when no file and no environment        *)
(* variable supplies it; a value supplied by a file, by dotenv or by the   *)
(* environment is the resolved value instead; a field without an override  *)
(* for the selected profile resolves to its generic default.               *)
(***************************************************************************)
C12_ProfileOverride ==
    ResolvedOk("Service") =>
        \A i \in 1..Len(Fields("Service")) :
            LET g == Fields("Service")[i]
                from_env == env_var(environ, env_var_name("Service", g.name))
                from_file == FileValue(ParsedFiles(arg.attr.files), <<g.name>>)
                resolved == ret.v.v[g.name]
            IN IF from_env # NoString THEN resolved = coerce_value(from_env)
               ELSE IF from_file \notin {NoValue, Null} THEN resolved = from_file
               ELSE IF OverrideOf(g) # None
                    THEN resolved = coerce_value(OverrideOf(g).v)
               ELSE resolved = FromDefault(g)

\* C12 holds of the calls in which no file gives null for a field
C12_HoldsWithoutNull ==
    (ResolvedOk("Service")
        /\ \A i \in 1..Len(arg.attr.files) : arg.attr.files[i][1] # P_d) =>
        \A i \in 1..Len(Fields("Service")) :
            LET g == Fields("Service")[i]
                from_env == env_var(environ, env_var_name("Service", g.name))
                from_file == FileValue(ParsedFiles(arg.attr.files), <<g.name>>)
                resolved == ret.v.v[g.name]
            IN IF from_env # NoString THEN resolved = coerce_value(from_env)
               ELSE IF from_file # NoValue THEN resolved = from_file
               ELSE IF OverrideOf(g) # None
                    THEN resolved = coerce_value(OverrideOf(g).v)
               ELSE resolved = FromDefault(g)

(***************************************************************************)
(* C13: when the selector variable holds a name that is not in the         *)
(* non-empty allowed list, the call returns InvalidProfile with that name  *)
(* and the allowed names, and no builder was made, no config file read and *)
(* no field extracted; when the selector variable is not set, no profile   *)
(* is selected and the call goes on past the validation.                   *)
(***************************************************************************)
AfterProfileSetup ==
    pc \in {"builder", "into_value", "from_json_value", "source_entries", "returned"}

C13_InvalidProfileFailsFirst ==
    (AfterProfileSetup /\ arg.attr.profile_env # NoString) =>
        LET selected == env_var(environ, arg.attr.profile_env)
            allowed == arg.attr.profiles
        IN /\ (/\ allowed # None
               /\ allowed.v # <<>>
               /\ selected # NoString
               /\ \A i \in 1..Len(allowed.v) : allowed.v[i] # selected)
                 => /\ pc = "returned"
                    /\ ret = Returned("Err",
                                 Error_invalid_profile(selected, arg.attr.profile_env,
                                                       allowed.v))
                    /\ reads = <<>>
                    /\ base = NoValue
                    /\ files = <<>>
                    /\ sources = <<>>
           /\ selected = NoString
                 => /\ profile = NoString
                    /\ (ret # NoValue => ret.v.t # "InvalidProfile")
                    /\ pc = "returned" => ret.t \in {"Ok", "Err"}

\* ENV=qa with the allowed profiles dev and prod, and a file declared
C13_Witness ==
    /\ pc = "returned"
    /\ arg.attr.profiles = Some(<<S_dev, S_prod>>)
    /\ arg.attr.files = << <<P_c, FALSE>> >>
    /\ env_var(environ, V_ENV) = S_qa
    /\ ret = Returned("Err",
                 Error_invalid_profile(S_qa, V_ENV, <<S_dev, S_prod>>))
    /\ reads = <<>>

\* the selector variable is not set and the call returned Ok
C13_WitnessUnset ==
    /\ pc = "returned"
    /\ arg.attr.profiles = Some(<<S_dev, S_prod>>)
    /\ env_var(environ, V_ENV) = NoString
    /\ profile = NoString
    /\ ret.t = "Ok"

(***************************************************************************)
(* C14: from_config_with_sources adds one entry per regular field, in      *)
(* field order, whose source is the first that applies: the variable of    *)
(* the field is set (DotenvFile when .env was loaded and set it,           *)
(* Environment otherwise), a file is recorded for the field, a profile is  *)
(* selected and the field has a #[profile] attribute, the field has a      *)
(* default, NotSet; and when the variable is set the field has its value.  *)
(***************************************************************************)
\* the last declared file that exists and has a leaf at the key path
RECURSIVE FileOf(_, _)
FileOf(fl, keys) ==
    IF fl = <<>> THEN NoString
    ELSE LET last == fl[Len(fl)][1]
         IN IF FileSystem[last].exists
                  /\ keys \in NonMapPaths(FileSystem[last].parsed)
            THEN last
            ELSE FileOf(SubSeq(fl, 1, Len(fl) - 1), keys)

\* .env was loaded and it is its entry that set the variable: the values of
\* the .env entries differ from those of the environments
SetByDotenv(var) ==
    /\ arg.attr.dotenv
    /\ \E i \in 1..Len(dotenv_file) :
           dotenv_file[i] = <<var, env_var(environ, var)>>

ExpectedSource14(g) ==
    LET var == env_var_name(arg.struct, g.name)
        file == FileOf(arg.attr.files, <<g.name>>)
    IN IF env_var(environ, var) # NoString
       THEN IF SetByDotenv(var) THEN <<"DotenvFile">> ELSE <<"Environment">>
       ELSE IF file # NoString THEN <<"ConfigFile", file>>
       ELSE IF profile # NoString /\ profile_config(arg.struct, g.name) # <<>>
            THEN <<"Profile", profile>>
       ELSE IF g.default # NoString THEN <<"Default">>
       ELSE <<"NotSet">>

C14_WitnessDotenv ==
    /\ ResolvedOk("Service")
    /\ arg.entry = "from_config_with_sources"
    /\ sources[1] = <<N_level, V_LVL, <<"DotenvFile">>>>
    /\ sources[2] = <<N_port, V_PORT, <<"ConfigFile", P_d>>>>

(***************************************************************************)
(* C15: from_config takes the sources in the documented priority order,    *)
(* highest first: environment variables, dotenv files, profile defaults,   *)
(* config files, macro defaults; a profile default has priority over the   *)
(* value of a config file, which has priority over the macro default.      *)
(***************************************************************************)
C15_DocumentedPriorityOrder ==
    ResolvedOk("Service") =>
        \A i \in 1..Len(Fields("Service")) :
            LET g == Fields("Service")[i]
                from_env == env_var(environ, env_var_name("Service", g.name))
                from_file == FileValue(ParsedFiles(arg.attr.files), <<g.name>>)
                resolved == ret.v.v[g.name]
            IN IF from_env # NoString THEN resolved = coerce_value(from_env)
               ELSE IF OverrideOf(g) # None
                    THEN resolved = coerce_value(OverrideOf(g).v)
               ELSE IF from_file \notin {NoValue, Null} THEN resolved = from_file
               ELSE resolved = FromDefault(g)

(***************************************************************************)
(* C16: after merge the origin tracker describes the merged tree: every    *)
(* record is at a leaf of the merged tree and names the last layer that    *)
(* wrote that leaf, so a path overridden by a later file or by the         *)
(* environment no longer points at the earlier file.                       *)
(***************************************************************************)
\* the paths of the files that exist and parse, in the order added
RECURSIVE FileLayerPaths(_)
FileLayerPaths(fl) ==
    IF fl = <<>> THEN <<>>
    ELSE LET parsed == parse_file(Head(fl)[1], Head(fl)[2],
                                  FileSystem[Head(fl)[1]], features)
         IN (IF parsed.ok /\ parsed.kind = "Some" THEN <<Head(fl)[1]>> ELSE <<>>)
                \o FileLayerPaths(Tail(fl))

\* the name of every layer of AllLayers: the path of a file layer
LayerNames ==
    <<<<"defaults">>>> \o FileLayerPaths(files)
        \o [i \in 1..Len(EnvLayers) |-> <<"environment">>]
        \o [i \in 1..Len(MappingLayers(env_mappings)) |-> <<"mapping">>]

C16_TrackerDescribesMerged ==
    (pc = "done" /\ result.ok) =>
        \A r \in origins :
            /\ r[1] \in NonMapPaths(base)
            /\ \E i \in 1..Len(AllLayers) :
                  /\ r[1] \in NonMapPaths(AllLayers[i])
                  /\ \A j \in (i + 1)..Len(AllLayers) :
                        r[1] \notin NonMapPaths(AllLayers[j])
                  /\ LayerNames[i] = r[2]

\* the tracker names the last file that has each path, whatever the
\* environment layers wrote after the files
C16_TrackerNamesLastFile ==
    (pc = "done" /\ result.ok) =>
        LET F == FileLayers(files)
        IN \A p \in UNION {NonMapPaths(F[i]) : i \in 1..Len(F)} :
              \E i \in 1..Len(F) :
                 /\ p \in NonMapPaths(F[i])
                 /\ \A j \in (i + 1)..Len(F) : p \notin NonMapPaths(F[j])
                 /\ <<p, FileLayerPaths(files)[i]>> \in origins

(***************************************************************************)
(* Specification: a call of from_config / from_config_with_sources while   *)
(* another thread sets and removes an environment variable                 *)
(***************************************************************************)
\* std::env::set_var(name, value)
set_var(vs, name, value) ==
    IF env_var(vs, name) = NoString THEN Append(vs, <<name, value>>)
    ELSE [i \in 1..Len(vs) |-> IF vs[i][1] = name THEN <<name, value>> ELSE vs[i]]

\* std::env::remove_var(name)
RECURSIVE remove_var(_, _)
remove_var(vs, name) ==
    IF vs = <<>> THEN <<>>
    ELSE (IF Head(vs)[1] = name THEN <<>> ELSE <<Head(vs)>>)
             \o remove_var(Tail(vs), name)

\* another thread calls set_var while the call is running
OtherThreadSetVar(name, value) ==
    /\ pc \notin {"returned", "unused"}
    /\ env_var(environ, name) # value
    /\ environ' = set_var(environ, name, value)
    /\ UNCHANGED <<mergeVars, callVars, builderVars, features, origins, configVars>>

\* another thread calls remove_var while the call is running
OtherThreadRemoveVar(name) ==
    /\ pc \notin {"returned", "unused"}
    /\ env_var(environ, name) # NoString
    /\ environ' = remove_var(environ, name)
    /\ UNCHANGED <<mergeVars, callVars, builderVars, features, origins, configVars>>

NextRace ==
    \/ PreDotenvCollection
    \/ DotenvLoad
    \/ ProfileSetup
    \/ BuilderSetup
    \/ IntoValue
    \/ FromJsonValueCall
    \/ SourceEntries
    \/ OtherThreadSetVar(V_LVL, <<"t">>)
    \/ OtherThreadRemoveVar(V_LVL)

\* the calls of Service with at most one config file
InitRace ==
    /\ InitConfig
    /\ arg.struct = "Service"
    /\ Len(arg.attr.files) <= 1

SpecRace == InitRace /\ [][NextRace]_vars

(***************************************************************************)
(* C17: the value a call resolves for a field and the source it reports    *)
(* for it come from one state of the environment, also when another thread *)
(* changes the variable during the call: the source of level is            *)
(* Environment or DotenvFile exactly when its value is one the variable    *)
(* LVL held.                                                               *)
(***************************************************************************)
C17_ValueAndSourceAgree ==
    (ResolvedOk("Service") /\ arg.entry = "from_config_with_sources") =>
        (sources[1][3] \in {<<"Environment">>, <<"DotenvFile">>}
            <=> ret.v.v[N_level] \in {String(<<"e">>), String(<<"v">>),
                                      String(<<"t">>)})

(***************************************************************************)
(* Display and Debug of Error (lib.rs:452-595)                             *)
(***************************************************************************)
T_redacted == <<"<","r","e","d","a","c","t","e","d",">">>
T_missing == <<"m","i","s","s","i","n","g"," ","r","e","q","u","i","r","e","d"," ","e","n","v","i","r","o","n","m","e","n","t"," ","v","a","r","i","a","b","l","e",":"," ">>
T_failed == <<"f","a","i","l","e","d"," ","t","o"," ","p","a","r","s","e"," ">>
T_expected == <<":"," ","e","x","p","e","c","t","e","d"," ">>
T_got == <<","," ","g","o","t"," ">>
T_config_errors == <<" ","c","o","n","f","i","g","u","r","a","t","i","o","n"," ","e","r","r","o","r","(","s",")"," ","o","c","c","u","r","r","e","d">>
T_set == <<"s","e","t"," ">>
T_in_env == <<" ","i","n"," ","y","o","u","r"," ","e","n","v","i","r","o","n","m","e","n","t"," ","o","r"," ",".","e","n","v"," ","f","i","l","e">>
T_valid == <<"e","x","p","e","c","t","e","d"," ","a"," ","v","a","l","i","d"," ">>

\* Error::Parse as Error::parse builds it; source stands for the boxed
\* error by the text its Debug prints
Error_parse(var, value, secret, expected_type, source) ==
    [t |-> "Parse",
     v |-> [var |-> var, value |-> value, secret |-> secret,
            expected_type |-> expected_type,
            help |-> T_valid \o expected_type, source |-> source]]

\* <usize as Display>::fmt
RECURSIVE usize_to_string(_)
usize_to_string(n) ==
    IF n < 10 THEN <<DigitChars[n + 1]>>
    ELSE usize_to_string(n \div 10) \o <<DigitChars[(n % 10) + 1]>>

\* <str as Debug>::fmt: the text in quotes, quote and backslash escaped
RECURSIVE escape_debug(_)
escape_debug(s) ==
    IF s = <<>> THEN <<>>
    ELSE (IF Head(s) \in {"\"", "\\"} THEN <<"\\", Head(s)>> ELSE <<Head(s)>>)
             \o escape_debug(Tail(s))

str_Debug(s) == <<"\"">> \o escape_debug(s) \o <<"\"">>

bool_Debug(b) == IF b THEN S_true ELSE S_false

\* Formatter::debug_struct(name).field(..)...finish(), not pretty-printed
RECURSIVE debug_fields(_)
debug_fields(fields) ==
    IF fields = <<>> THEN <<>>
    ELSE Head(fields)[1] \o <<":", " ">> \o Head(fields)[2]
             \o (IF Len(fields) = 1 THEN <<>> ELSE <<",", " ">>)
             \o debug_fields(Tail(fields))

debug_struct(name, fields) ==
    name \o <<" ", "{", " ">> \o debug_fields(fields) \o <<" ", "}">>

\* variant: the value is written whether or not the field is secret
Error_Display_unredacted(e) ==
    CASE e.t = "Missing" -> T_missing \o e.v
      [] e.t = "Parse" ->
            T_failed \o e.v.var \o T_expected \o e.v.expected_type \o T_got
                \o str_Debug(e.v.value)
      [] e.t = "Multiple" -> usize_to_string(Len(e.v)) \o T_config_errors

\* impl Display for Error
Error_Display(e) ==
    CASE e.t = "Missing" -> T_missing \o e.v
      [] e.t = "Parse" ->
            T_failed \o e.v.var \o T_expected \o e.v.expected_type \o T_got
                \o (IF e.v.secret THEN T_redacted ELSE str_Debug(e.v.value))
      [] e.t = "Multiple" -> usize_to_string(Len(e.v)) \o T_config_errors

\* impl Debug for Error
RECURSIVE Error_Debug(_)
Error_Debug(e) ==
    LET list(errors) ==
            LET RECURSIVE items(_)
                items(es) ==
                    IF es = <<>> THEN <<>>
                    ELSE Error_Debug(Head(es))
                             \o (IF Len(es) = 1 THEN <<>> ELSE <<",", " ">>)
                             \o items(Tail(es))
            IN <<"[">> \o items(errors) \o <<"]">>
    IN CASE e.t = "Missing" ->
               debug_struct(<<"M","i","s","s","i","n","g">>,
                   << <<<<"v","a","r">>, str_Debug(e.v)>>,
                      <<<<"h","e","l","p">>, str_Debug(T_set \o e.v \o T_in_env)>> >>)
         [] e.t = "Parse" ->
               debug_struct(<<"P","a","r","s","e">>,
                   << <<<<"v","a","r">>, str_Debug(e.v.var)>>,
                      <<<<"v","a","l","u","e">>, IF e.v.secret THEN str_Debug(T_redacted)
                                   ELSE str_Debug(e.v.value)>>,
                      <<<<"s","e","c","r","e","t">>, bool_Debug(e.v.secret)>>,
                      <<<<"e","x","p","e","c","t","e","d","_","t","y","p","e">>, str_Debug(e.v.expected_type)>>,
                      <<<<"h","e","l","p">>, str_Debug(e.v.help)>>,
                      <<<<"s","o","u","r","c","e">>, e.v.source>> >>)
         [] e.t = "Multiple" ->
               debug_struct(<<"M","u","l","t","i","p","l","e">>, << <<<<"e","r","r","o","r","s">>, list(e.v)>> >>)

(***************************************************************************)
(* Specification: an error is formatted, or a struct with secret fields    *)
(* is extracted from a value                                               *)
(***************************************************************************)
V_KEY == <<"K","E","Y">>
T_u16 == <<"u","1","6">>
T_String == <<"S","t","r","i","n","g">>
D_fmt_Error == <<"E","r","r","o","r">>
D_ParseIntError == <<"P","a","r","s","e","I","n","t","E","r","r","o","r"," ","{"," ","k","i","n","d",":"," ","I","n","v","a","l","i","d","D","i","g","i","t"," ","}">>

\* the longest raw value of a Parse error
MaxRawLen == 2

RawValues == StringsUpTo({"a", "\""}, MaxRawLen)

ParseErrors ==
    {Error_parse(var, value, secret, ty, source) :
        var \in {V_KEY, V_PORT}, value \in RawValues, secret \in BOOLEAN,
        ty \in {T_u16, T_String}, source \in {D_fmt_Error, D_ParseIntError}}

FormatInputs ==
    ParseErrors
        \cup {Error_missing(V_KEY)}
        \cup {Error_Multiple(<<Error_missing(V_PORT), p>>) :
                 p \in {x \in ParseErrors : x.v.var = V_KEY /\ x.v.expected_type = T_String}}

\* the structs that declare a SecretString or SecretBox field
SecretInputs == {x \in ExtractInputs : x[1] \in {"Config", "Retry"}}

InitSecret ==
    /\ arg \in ({"Error"} \X FormatInputs) \cup SecretInputs
    /\ ret = NoValue
    /\ NoMerge
    /\ environ = <<>>
    /\ NoBuilder
    /\ origins = NoOrigins
    /\ NoConfig

\* ret = (error.to_string(), format!("{:?}", error))
FormatError ==
    /\ arg[1] = "Error"
    /\ ret = NoValue
    /\ ret' = [t |-> "text", v |-> 0,
               display |-> Error_Display(arg[2]), debug |-> Error_Debug(arg[2])]
    /\ UNCHANGED <<arg, mergeVars, environ, builderVars, features, origins, configVars>>

NextSecret ==
    \/ FormatError
    \/ (arg[1] # "Error" /\ FromJsonValue)

SpecSecret == InitSecret /\ [][NextSecret]_vars

\* p occurs in s
IsInfix(p, s) ==
    \E i \in 0..(Len(s) - Len(p)) : \A j \in 1..Len(p) : s[i + j] = p[j]

\* e with the value of every secret Parse error in it replaced by value
RECURSIVE WithRawValue(_, _)
WithRawValue(e, value) ==
    CASE e.t = "Parse" ->
            IF e.v.secret THEN [e EXCEPT !.v.value = value] ELSE e
      [] e.t = "Multiple" ->
            [e EXCEPT !.v = [i \in 1..Len(e.v) |-> WithRawValue(e.v[i], value)]]
      [] OTHER -> e

RECURSIVE SecretParses(_)
SecretParses(e) ==
    CASE e.t = "Parse" -> IF e.v.secret THEN {e} ELSE {}
      [] e.t = "Multiple" -> UNION {SecretParses(e.v[i]) : i \in 1..Len(e.v)}
      [] OTHER -> {}

SecretFields(struct) ==
    {Fields(struct)[i] : i \in
        {j \in 1..Len(Fields(struct)) :
            Fields(struct)[j].kind \in {"secret_string", "secret_box"}}}

\* the errors of a call that are about field g
ErrorsAbout(r, g) ==
    {r.errors[i] : i \in
        {j \in 1..Len(r.errors) :
            /\ r.errors[j].t = "Extraction"
            /\ r.errors[j].v[1] = g.name}}

\* arg[2] with the entry of field g replaced by raw
WithField(value, g, raw) ==
    Object([k \in DOMAIN value.v \cup {g.name} |->
               IF k = g.name THEN raw ELSE value.v[k]])

C18_WitnessExtraction ==
    /\ arg[1] = "Retry"
    /\ ret # NoValue
    /\ N_key \in DOMAIN arg[2].v
    /\ arg[2].v[N_key] = String(<<"x">>)
    /\ \E i \in 1..Len(ret.errors) :
          ret.errors[i] = Error_extraction(N_key, "i64", M_convert)

(***************************************************************************)
(* The variable of a nested leaf (tests/nested_complex.rs:559-660,         *)
(* 712-788)                                                                *)
(***************************************************************************)
\* the key paths of the leaf fields of a struct, through its flatten fields
RECURSIVE LeafFieldPaths(_)
LeafFieldPaths(struct) ==
    LET of(g) ==
            IF g.kind = "flatten"
            THEN {<<g.name>> \o p : p \in LeafFieldPaths(g.nested)}
            ELSE {<<g.name>>}
        all(fields) == UNION {of(fields[i]) : i \in 1..Len(fields)}
    IN all(Fields(struct))

\* the variable from_env reads for the leaf at a key path of struct: the
\* prefix so far, then the flatten prefix of every flatten field on the
\* path, then the var of the leaf
RECURSIVE from_env_var(_, _, _)
from_env_var(struct, prefix, path) ==
    LET g == CHOOSE f \in {Fields(struct)[i] : i \in 1..Len(Fields(struct))} :
                 f.name = Head(path)
    IN IF Len(path) = 1 THEN prefix \o env_var_name(struct, Head(path))
       ELSE from_env_var(g.nested,
                         prefix \o flatten_prefix(struct, Head(path)),
                         Tail(path))

\* the variables the registered direct mappings give the dotted path
MappedVars(mappings, field_path) ==
    {mappings[i][2] : i \in {j \in 1..Len(mappings) : mappings[j][1] = field_path}}

(***************************************************************************)
(* C19: the direct mappings from_config registers for the fields of a      *)
(* flattened sub-struct pair the dotted path of every nested leaf with the *)
(* variable that is the struct prefix, then the flatten prefix of every    *)
(* enclosing flatten field, then the var of the leaf.                      *)
(***************************************************************************)
C19_NestedMappingsConcatenate ==
    (pc \in {"into_value", "from_json_value", "source_entries", "returned"}
        /\ env_mappings # <<>>) =>
        \A path \in {p \in LeafFieldPaths(arg.struct) : Len(p) > 1} :
            MappedVars(env_mappings, Dotted(path))
                = {from_env_var(arg.struct, arg.attr.prefix, path)}

\* the mapping registered for db.pool.min of Complex names DB_MIN, and a
\* call with C_DB_PL_MIN=5 in the environment resolved the default 1
C19_Diverges ==
    /\ ResolvedOk("Complex")
    /\ from_env_var("Complex", arg.attr.prefix, <<N_db, N_pool, N_min>>)
           = V_C_DB_PL_MIN
    /\ MappedVars(env_mappings, Dotted(<<N_db, N_pool, N_min>>)) = {V_DB_MIN}
    /\ env_var(environ, V_C_DB_PL_MIN) = <<"5">>
    /\ env_var(environ, V_DB_MIN) = NoString
    /\ arg.attr.files = <<>>
    /\ profile = NoString
    /\ ret.v.v[N_db].v[N_pool].v[N_min] = SmallInt(1)

(***************************************************************************)
(* Specification: parse_file and FileFormat::from_path on one path         *)
(* (file.rs:45-55, 253-299)                                                *)
(***************************************************************************)
X_json == <<"j","s","o","n">>
X_toml == <<"t","o","m","l">>
X_yaml == <<"y","a","m","l">>
X_yml == <<"y","m","l">>
X_txt == <<"t","x","t">>
X_unknown == <<"u","n","k","n","o","w","n">>

\* the spellings of an extension in every letter case
CaseVariants(ext) ==
    LET upper(c) == UpperChars[CHOOSE i \in 1..26 : LowerChars[i] = c]
    IN {[i \in 1..Len(ext) |-> IF up[i] THEN upper(ext[i]) ELSE ext[i]] :
           up \in [1..Len(ext) -> BOOLEAN]}

Extensions ==
    CaseVariants(X_json) \cup CaseVariants(X_yml) \cup CaseVariants(X_txt)
        \cup {X_toml, <<"T","O","M","L">>, <<"T","o","m","l">>,
              X_yaml, <<"Y","A","M","L">>, <<"y","a","M","l">>,
              <<>>, <<"j","s","o">>, <<"j","s","o","n","5">>, <<"b","a","k">>}

\* paths with an extension in a directory or not, and paths without one
ParsePaths ==
    {stem \o <<".">> \o ext :
        stem \in {<<"c">>, <<"e",".","d","/","c">>, <<"c",".","j","s","o","n">>},
        ext \in Extensions}
      \cup {<<"c">>, <<".","j","s","o","n">>, <<"e",".","d","/","c">>,
            <<"e","/",".","t","o","m","l">>}

\* a file that is missing, unreadable, ill-formed, or holds a tree
FileStates ==
    {[exists |-> FALSE, readable |-> FALSE, parsed |-> NoValue],
     [exists |-> TRUE, readable |-> FALSE, parsed |-> NoValue],
     [exists |-> TRUE, readable |-> TRUE, parsed |-> NoValue],
     [exists |-> TRUE, readable |-> TRUE, parsed |-> Tree_a]}

InitParse ==
    /\ arg \in [path : ParsePaths, required : BOOLEAN, file : FileStates]
    /\ ret = NoValue
    /\ features \in SUBSET AllFeatures
    /\ files = <<>>
    /\ env_prefix = NoString
    /\ env_separator = <<"_">>
    /\ env_mappings = <<>>
    /\ pc = "unused"
    /\ result = NoResult
    /\ reads = <<>>
    /\ NoMerge
    /\ environ = <<>>
    /\ origins = NoOrigins
    /\ NoConfig

\* result = parse_file(path, required); ret = FileFormat::from_path(path)
ParseFile ==
    /\ ret = NoValue
    /\ result = NoResult
    /\ result' = parse_file(arg.path, arg.required, arg.file, features)
    /\ ret' = [t |-> "format", v |-> FileFormat_from_path(arg.path, features)]
    /\ UNCHANGED <<mergeVars, arg, environ, files, env_prefix, env_separator,
                   env_mappings, pc, reads, features, origins, configVars>>

NextParse == ParseFile

SpecParse == InitParse /\ [][NextParse]_vars

\* the extensions this build recognizes, in lower case, with their formats
Recognized(feats) ==
    (X_json :> "Json")
        @@ (IF "toml" \in feats THEN (X_toml :> "Toml") ELSE <<>>)
        @@ (IF "yaml" \in feats THEN (X_yaml :> "Yaml") @@ (X_yml :> "Yaml")
            ELSE <<>>)

\* the text after the last '.' of the last component of the path, when the
\* component has a '.' that is not its first character
HasExtension(path, ext) ==
    \E i \in 1..Len(path) :
        /\ path[i] = "."
        /\ i > 1
        /\ path[i - 1] # "/"
        /\ ext = SubSeq(path, i + 1, Len(path))
        /\ ~Contains(ext, ".")
        /\ ~Contains(ext, "/")

\* r is Err(kind) with the detail
IsErr(r, kind, detail) == ~r.ok /\ r.kind = kind /\ r.value = detail

UnknownExtension(path, ext, feats) ==
    HasExtension(path, ext) /\ to_lowercase(ext) \notin DOMAIN Recognized(feats)

(***************************************************************************)
(* C20 as stated: for every path, required or optional, whose extension is *)
(* not a recognized one, parse_file returns UnknownFormat with that        *)
(* extension; a recognized extension in any letter case selects its        *)
(* format.                                                                 *)
(***************************************************************************)
C20_UnknownExtensionIsError ==
    ret # NoValue =>
        /\ \A ext \in Extensions :
              UnknownExtension(arg.path, ext, features)
                  => IsErr(result, "UnknownFormat", ext)
        /\ \A ext \in Extensions :
              (HasExtension(arg.path, ext)
                  /\ to_lowercase(ext) \in DOMAIN Recognized(features))
                  => ret.v = Recognized(features)[to_lowercase(ext)]

(***************************************************************************)
(* C20, amended: for every path to a file that exists and can be read,     *)
(* required or optional, whose extension is not a recognized one,          *)
(* parse_file returns UnknownFormat with that extension as written, and    *)
(* with the word "unknown" when the path has no extension; a missing file  *)
(* gives NotFound or Ok(None) and an unreadable one ReadError whatever the *)
(* extension. A recognized extension in any letter case selects its        *)
(* format, and the file is then never reported as UnknownFormat.           *)
(***************************************************************************)
C20_UnknownExtensionOfReadableFile ==
    ret # NoValue =>
        /\ \A ext \in Extensions :
              (UnknownExtension(arg.path, ext, features)
                  /\ arg.file.exists /\ arg.file.readable)
                  => IsErr(result, "UnknownFormat", ext)
        /\ ((\A ext \in Extensions : ~HasExtension(arg.path, ext))
               /\ arg.file.exists /\ arg.file.readable)
              => IsErr(result, "UnknownFormat", X_unknown)
        /\ ~arg.file.exists =>
              IF arg.required THEN IsErr(result, "NotFound", arg.path)
              ELSE result.ok /\ result.kind = "None"
        /\ (arg.file.exists /\ ~arg.file.readable) =>
              IsErr(result, "ReadError", arg.path)
        /\ \A ext \in Extensions :
              (HasExtension(arg.path, ext)
                  /\ to_lowercase(ext) \in DOMAIN Recognized(features))
                  => /\ ret.v = Recognized(features)[to_lowercase(ext)]
                     /\ result.kind # "UnknownFormat"

\* an optional, readable file with the extension TXT was refused, and a
\* file named .Json-wise in mixed case was parsed as JSON
C20_Witness ==
    /\ ret # NoValue
    /\ ~arg.required
    /\ arg.path = <<"e",".","d","/","c",".","T","X","T">>
    /\ IsErr(result, "UnknownFormat", <<"T","X","T">>)

\* a file with a mixed-case json extension was parsed
C20_WitnessCase ==
    /\ ret # NoValue
    /\ arg.path = <<"c",".","J","s","O","n">>
    /\ ret.v = "Json"
    /\ result.ok
    /\ result.kind = "Some"
    /\ result.value = Tree_a

\* without the toml feature a .toml file is refused
C20_WitnessFeature ==
    /\ ret # NoValue
    /\ "toml" \notin features
    /\ arg.path = <<"c",".","t","o","m","l">>
    /\ IsErr(result, "UnknownFormat", X_toml)

\* the fields of a struct that are unwrapped at construction
UnwrappedFields(struct) ==
    {Fields(struct)[i].name : i \in
        {j \in 1..Len(Fields(struct)) : Fields(struct)[j].kind # "optional"}}

(***************************************************************************)
(* C21 as stated: __from_json_value returns Ok exactly when no field       *)
(* recorded an error, no unwrap panics, and a call with a failed field     *)
(* returns Err and no struct.                                              *)
(***************************************************************************)
C21_OkIffNoFieldError ==
    ret # NoValue =>
        /\ ret.t # "panic"
        /\ ret.t = "Ok" <=> ret.errors = <<>>

(***************************************************************************)
(* C21, amended: on an object __from_json_value returns Ok exactly when no *)
(* field recorded an error, and then every required, defaulted, secret and *)
(* flattened field of the struct holds a value, so no unwrap panics; with  *)
(* a failed field the result is Err and carries an error, not a struct. On *)
(* a value that is not an object the result is Err although no field was   *)
(* looked at and none recorded an error.                                   *)
(***************************************************************************)
C21_NoPanicOkIffNoError ==
    ret # NoValue =>
        /\ ret.t \in {"Ok", "Err"}
        /\ IsObject(arg[2]) => (ret.t = "Ok" <=> ret.errors = <<>>)
        /\ ~IsObject(arg[2]) =>
              /\ ret.t = "Err"
              /\ ret.errors = <<>>
              /\ ret.evaluated = <<>>
        /\ ret.t = "Ok" =>
              /\ ret.v.t = "struct"
              /\ \A n \in UnwrappedFields(arg[1]) : ret.v.v[n] # None
        /\ ret.t = "Err" => ret.v.t \in {"Missing", "Extraction", "Multiple"}

\* a Config with one failing field (token) among fields that hold values
\* was refused with the single error
C21_Witness ==
    /\ ret # NoValue
    /\ arg[1] = "Config"
    /\ IsObject(arg[2])
    /\ Len(ret.errors) = 1
    /\ ret.t = "Err"
    /\ ret.v = Error_missing(N_token)

\* a Config was built with every unwrapped field holding a value
C21_WitnessOk ==
    /\ ret # NoValue
    /\ arg[1] = "Config"
    /\ ret.t = "Ok"
    /\ ret.v.v[N_host] = None
    /\ ret.v.v[N_debug] = Bool(FALSE)

\* an intermediate segment of parts holds a value in map that is not a map
BlockedByScalar(map, parts) ==
    \E k \in 1..(Len(parts) - 1) :
        /\ GetPath(Object(map), SubSeq(parts, 1, k)) # NoValue
        /\ ~IsObject(GetPath(Object(map), SubSeq(parts, 1, k)))

\* root before the last variable of the enumeration was handled
RootBeforeLast == env_fold(EmptyMap, SubSeq(environ, 1, Len(environ) - 1), arg[1], arg[2])

(***************************************************************************)
(* C22: when insert_nested reaches an intermediate segment whose key holds *)
(* a value that is not a map, the map is left exactly as it was: read on   *)
(* the last variable env_to_value handles, the tree returned is the tree   *)
(* built from the variables before it, the scalar included.                *)
(***************************************************************************)
C22_InsertBlockedByScalarIsDropped ==
    (ret # NoValue /\ environ # <<>>
        /\ IsPrefixOf(arg[1], environ[Len(environ)][1])) =>
        LET last == environ[Len(environ)]
            parts == EnvPath(last[1], arg[1], arg[2])
            before == RootBeforeLast
        IN /\ BlockedByScalar(before, parts) =>
                 /\ ret = Object(before)
                 /\ insert_nested(before, parts, coerce_value(last[2])) = before
           /\ ~BlockedByScalar(before, parts) =>
                 GetPath(ret, parts) = coerce_value(last[2])

\* APP_DB=x was handled before APP_DB_HOST=localhost: db stays the string
C22_Witness ==
    /\ ret # NoValue
    /\ arg = <<S_APP_, S_sep>>
    /\ environ = << << S_APP_ \o <<"D","B">>, <<"x">> >>,
                    << S_APP_ \o <<"D","B","_","H","O","S","T">>,
                       <<"l","o","c","a","l","h","o","s","t">> >> >>
    /\ BlockedByScalar(RootBeforeLast, <<<<"d","b">>, <<"h","o","s","t">>>>)
    /\ ret = Object(<<"d","b">> :> String(<<"x">>))

(***************************************************************************)
(* Spans of located parse errors (file.rs:139-176)                         *)
(***************************************************************************)
\* the longest span of a token that no delimiter ends
SpanMaxLen == 20

\* char::is_whitespace, on the characters of the generated contents
is_whitespace(c) == c \in {" ", "\n", "\r", "\t"}

\* str::lines: split at "\n", a "\r" before the "\n" dropped, no empty last
\* line after a final line ending
RECURSIVE lines(_)
lines(content) ==
    LET strip(l) ==
            IF l # <<>> /\ l[Len(l)] = "\r" THEN SubSeq(l, 1, Len(l) - 1) ELSE l
        cut(i) ==
            <<strip(SubSeq(content, 1, i - 1))>>
                \o lines(SubSeq(content, i + 1, Len(content)))
    IN IF content = <<>> THEN <<>>
       ELSE IF Contains(content, "\n")
       THEN cut(CHOOSE i \in 1..Len(content) :
                    content[i] = "\n" /\ \A j \in 1..(i - 1) : content[j] # "\n")
       ELSE <<content>>

\* variant: the span is cut at the end of the content
offset_to_span_clamped(offset, content) ==
    LET start == IF offset < Len(content) THEN offset ELSE Len(content)
        remaining == SubSeq(content, start + 1, Len(content))
        stops == {i \in 1..Len(remaining) :
                     is_whitespace(remaining[i]) \/ remaining[i] \in {",", "}", "]"}}
        found == IF stops = {} THEN Len(remaining)
                 ELSE (CHOOSE i \in stops : \A j \in stops : i <= j) - 1
    IN [offset |-> start, len |-> found]

\* offset_to_span: SourceSpan::new(offset, len)
offset_to_span(offset, content) ==
    LET start == IF offset < Len(content) THEN offset ELSE Len(content)
        remaining == SubSeq(content, start + 1, Len(content))
        stops == {i \in 1..Len(remaining) :
                     is_whitespace(remaining[i]) \/ remaining[i] \in {",", "}", "]"}}
        found == IF stops = {} THEN (IF Len(remaining) < SpanMaxLen
                                     THEN Len(remaining) ELSE SpanMaxLen)
                 ELSE (CHOOSE i \in stops : \A j \in stops : i <= j) - 1
    IN [offset |-> offset, len |-> IF found < 1 THEN 1 ELSE found]

\* line_col_to_offset: the loop over content.lines()
RECURSIVE line_col_loop(_, _, _, _, _)
line_col_loop(ls, i, offset, line, col) ==
    IF ls = <<>> THEN offset
    ELSE IF i + 1 = line THEN offset + (IF col = 0 THEN 0 ELSE col - 1)
    ELSE line_col_loop(Tail(ls), i + 1, offset + Len(Head(ls)) + 1, line, col)

line_col_to_offset(content, line, col) ==
    line_col_loop(lines(content), 0, 0, line, col)

\* the span of json_parse_error for an error serde_json reports at line, col
json_parse_error(line, col, content) ==
    offset_to_span(line_col_to_offset(content, line, col), content)

(***************************************************************************)
(* Specification: json_parse_error on a content and a reported position    *)
(***************************************************************************)
\* length of the free part of a generated content
MaxContentLen == 3

\* runs of one letter, around the longest span
Run(k) == [i \in 1..k |-> "a"]

RunLengths == {0, SpanMaxLen - 1, SpanMaxLen, SpanMaxLen + 1}

Contents ==
    {head \o Run(k) \o tail :
        head \in StringsUpTo({"a", ",", " ", "\n", "\r"}, MaxContentLen),
        k \in RunLengths,
        tail \in {<<>>, <<"}">>, <<"\n">>}}

\* the index of the first byte of a line, counting "\n" only (0-based)
LineStart(content, line) ==
    IF line = 1 THEN 0
    ELSE CHOOSE i \in 1..Len(content) :
             /\ content[i] = "\n"
             /\ Cardinality({j \in 1..i : content[j] = "\n"}) = line - 1

NewLines(content) == Cardinality({j \in 1..Len(content) : content[j] = "\n"})

\* the bytes of a line, its line ending excluded
LineLen(content, line) ==
    LET start == LineStart(content, line)
        rest == SubSeq(content, start + 1, Len(content))
    IN IF Contains(rest, "\n")
       THEN (CHOOSE i \in 1..Len(rest) :
                 rest[i] = "\n" /\ \A j \in 1..(i - 1) : rest[j] # "\n") - 1
       ELSE Len(rest)

\* the positions serde_json reports: a line of the content and a column
\* from 0 (right after a newline, or in an empty input) to the bytes read
\* in that line
Positions(content) ==
    {<<line, col>> \in (1..(NewLines(content) + 1)) \X (0..(MaxContentLen + SpanMaxLen + 2)) :
        col <= LineLen(content, line)}

InitSpan ==
    /\ arg \in {[content |-> c, line |-> p[1], col |-> p[2]] :
                   c \in Contents, p \in (1..(MaxContentLen + 2)) \X (0..(MaxContentLen + SpanMaxLen + 2))}
    /\ <<arg.line, arg.col>> \in Positions(arg.content)
    /\ ret = NoValue
    /\ NoMerge
    /\ environ = <<>>
    /\ NoBuilder
    /\ origins = NoOrigins
    /\ NoConfig

\* ret = the span of json_parse_error(e, content, path)
JsonParseError ==
    /\ ret = NoValue
    /\ ret' = [t |-> "span", v |-> json_parse_error(arg.line, arg.col, arg.content)]
    /\ UNCHANGED <<arg, mergeVars, environ, builderVars, features, origins, configVars>>

NextSpan == JsonParseError

SpecSpan == InitSpan /\ [][NextSpan]_vars

IsDelimiter(c) == is_whitespace(c) \/ c \in {",", "}", "]"}

(***************************************************************************)
(* C23: for every content and every reported line and column the span      *)
(* starts at the byte offset of that line and column, has length at least  *)
(* 1, ends no later than the next delimiter after its start, is at most 20 *)
(* bytes long when no delimiter follows, and lies inside the content.      *)
(***************************************************************************)
C23_SpanInsideContent ==
    ret # NoValue =>
        LET start == ret.v.offset
            len == ret.v.len
        IN /\ arg.col >= 1 =>
                 start = LineStart(arg.content, arg.line) + arg.col - 1
           /\ len >= 1
           /\ \A i \in (start + 2)..Len(arg.content) :
                 IsDelimiter(arg.content[i]) => start + len <= i - 1
           /\ (\A i \in (start + 1)..Len(arg.content) : ~IsDelimiter(arg.content[i]))
                 => len <= SpanMaxLen
           /\ start + len <= Len(arg.content)

\* the part of the claim that holds: the length is at least 1, at most 20
\* when no delimiter follows, and the span ends at the first delimiter
\* after the byte it starts on
C23_SpanLengthBounded ==
    ret # NoValue =>
        /\ ret.v.len >= 1
        /\ (\A i \in (ret.v.offset + 1)..Len(arg.content) :
                ~IsDelimiter(arg.content[i])) => ret.v.len <= SpanMaxLen
        /\ \A i \in (ret.v.offset + 2)..Len(arg.content) :
              IsDelimiter(arg.content[i]) => ret.v.offset + ret.v.len <= i - 1

\* the error at the end of a content that ends in a newline: the span
\* starts at the end of the content and is one byte long
C23_SpanPastEnd ==
    /\ ret # NoValue
    /\ arg.content = <<"a", "\n">>
    /\ arg.line = 2 /\ arg.col = 0
    /\ ret.v = [offset |-> 2, len |-> 1]

\* in a content with CRLF line endings the span of line 2, column 1 starts
\* on the "\n" before the line
C23_SpanCrlf ==
    /\ ret # NoValue
    /\ arg.content = <<"\r", "\n", "a">>
    /\ arg.line = 2 /\ arg.col = 1
    /\ ret.v = [offset |-> 1, len |-> 1]

(***************************************************************************)
(* What the sources of a call say about the resolved fields                *)
(***************************************************************************)
\* the field of a resolved struct at a key path (NoValue when there is none)
RECURSIVE ResolvedAt(_, _)
ResolvedAt(x, keys) ==
    IF keys = <<>> THEN x
    ELSE IF x.t = "struct" /\ keys[1] \in DOMAIN x.v
         THEN ResolvedAt(x.v[keys[1]], Tail(keys))
         ELSE NoValue

\* the call returned Ok((config, sources))
ResolvedWithSources ==
    /\ pc = "returned"
    /\ arg.entry = "from_config_with_sources"
    /\ ret # NoValue
    /\ ret.t = "Ok"

\* the value the variables named by the prefix/separator convention give at a
\* key path (NoValue when the call has no prefix or no such variable is set)
FromPrefixed(keys) ==
    IF arg.attr.prefix = NoString THEN NoValue
    ELSE GetPath(env_to_value(environ, arg.attr.prefix, <<"_">>), keys)

(***************************************************************************)
(* C24: for every entry of the sources of a call, the source names the     *)
(* layer that supplied the resolved value of the field: Environment or     *)
(* DotenvFile only if the field has the value of its variable, ConfigFile  *)
(* only if the field has the value that file gives at its path, Default or *)
(* Profile only if no file of the call and no variable (directly mapped or *)
(* named by the prefix/separator convention) sets its path.                *)
(***************************************************************************)
C24_SourceNamesSupplyingLayer ==
    ResolvedWithSources =>
        \A i \in 1..Len(sources) :
            LET keys == KeyPath(sources[i][1])
                var == sources[i][2]
                source == sources[i][3]
                resolved == ResolvedAt(ret.v, keys)
            IN /\ source[1] \in {"Environment", "DotenvFile"}
                    => /\ env_var(environ, var) # NoString
                       /\ resolved = coerce_value(env_var(environ, var))
               /\ source[1] = "ConfigFile"
                    => /\ GetPath(FileSystem[source[2]].parsed, keys) # NoValue
                       /\ resolved = GetPath(FileSystem[source[2]].parsed, keys)
               /\ source[1] \in {"Default", "Profile"}
                    => /\ FileValue(ParsedFiles(arg.attr.files), keys) = NoValue
                       /\ env_var(environ, var) = NoString
                       /\ FromPrefixed(keys) = NoValue

\* C_NAME=q sets name through the prefix convention and NAME is not set: the
\* field is "q" and its source is Default
C24_PrefixedReportedDefault ==
    /\ ResolvedWithSources
    /\ arg.struct = "Complex"
    /\ arg.attr.files = <<>>
    /\ env_var(environ, V_C_NAME) = <<"q">>
    /\ env_var(environ, V_NAME) = NoString
    /\ ret.v.v[N_name] = String(<<"q">>)
    /\ sources[1] = <<N_name, V_NAME, <<"Default">>>>

\* d.json gives null for level and LVL is not set: the field is its default
\* "i" and its source is ConfigFile(d.json)
C24_NullReportedConfigFile ==
    /\ ResolvedWithSources
    /\ arg.struct = "Service"
    /\ arg.attr.files = << <<P_d, FALSE>> >>
    /\ profile = NoString
    /\ env_var(environ, V_LVL) = NoString
    /\ ret.v.v[N_level] = String(<<"i">>)
    /\ sources[1] = <<N_level, V_LVL, <<"ConfigFile", P_d>>>>

(***************************************************************************)
(* C25: a regular field is attributed Profile(p) only when it declares an  *)
(* override literal for the selected profile p; a field that has overrides *)
(* for other profiles only, and no value from the environment or a file,   *)
(* is attributed Default, or NotSet when it has no default.                *)
(***************************************************************************)
C25_ProfileOnlyWithOverrideForSelected ==
    (ResolvedWithSources /\ arg.struct = "Service") =>
        \A i \in 1..Len(Fields("Service")) :
            LET g == Fields("Service")[i]
                source == sources[i][3]
            IN /\ source[1] = "Profile"
                    => /\ source[2] = profile
                       /\ OverrideOf(g) # None
               /\ (/\ profile # NoString
                   /\ profile_config("Service", g.name) # <<>>
                   /\ OverrideOf(g) = None
                   /\ source[1] \notin {"Environment", "DotenvFile", "ConfigFile"})
                    => source = IF g.default # NoString THEN <<"Default">>
                                ELSE <<"NotSet">>

\* ENV=prod and level has an override for dev only: the field is its generic
\* default "i" and its source is Profile("prod")
C25_OtherProfileReported ==
    /\ ResolvedWithSources
    /\ arg.struct = "Service"
    /\ profile = S_prod
    /\ profile_config("Service", N_level) = << <<S_dev, <<"d">>>> >>
    /\ env_var(environ, V_LVL) = NoString
    /\ arg.attr.files = <<>>
    /\ ret.v.v[N_level] = String(<<"i">>)
    /\ sources[1] = <<N_level, V_LVL, <<"Profile", S_prod>>>>

(***************************************************************************)
(* C26: with dotenv loading enabled, the entry of a variable that was set  *)
(* before .env was loaded has the source Environment, for a top-level      *)
(* field and for a field of a flattened struct alike, and DotenvFile is    *)
(* the source only of a variable that the .env file set.                   *)
(***************************************************************************)
\* the variable was set in the process environment before .env was loaded
SetBeforeDotenv(var) ==
    /\ env_var(environ, var) # NoString
    /\ ~SetByDotenv(var)

C26_PreSetIsEnvironment ==
    (ResolvedWithSources /\ arg.attr.dotenv) =>
        \A i \in 1..Len(sources) :
            /\ SetBeforeDotenv(sources[i][2]) => sources[i][3] = <<"Environment">>
            /\ sources[i][3] = <<"DotenvFile">> => SetByDotenv(sources[i][2])

\* C26 for the entries of the top-level fields
C26_PreSetTopLevelIsEnvironment ==
    (ResolvedWithSources /\ arg.attr.dotenv) =>
        \A i \in 1..Len(sources) :
            sources[i][2] \in env_var_names(arg.struct) =>
                /\ SetBeforeDotenv(sources[i][2])
                      => sources[i][3] = <<"Environment">>
                /\ sources[i][3] = <<"DotenvFile">> => SetByDotenv(sources[i][2])

\* DB_HOST=e was set before .env was loaded and db.host is "e": the source of
\* db.host is DotenvFile
C26_PreSetFlattenedReportedDotenv ==
    /\ ResolvedWithSources
    /\ arg.struct = "Complex"
    /\ arg.attr.dotenv
    /\ env_var(environ, V_DB_HOST) = <<"e">>
    /\ ResolvedAt(ret.v, <<N_db, N_host>>) = String(<<"e">>)
    /\ \E i \in 1..Len(sources) :
          sources[i] = <<N_db \o <<".">> \o N_host, V_DB_HOST, <<"DotenvFile">>>>

\* LVL=e was set before .env, which has LVL=v, was loaded: Environment; and
\* NAME came from .env: DotenvFile
C26_WitnessTopLevel ==
    /\ ResolvedWithSources
    /\ arg.attr.dotenv
    /\ \/ /\ arg.struct = "Service"
          /\ dotenv_file = << <<V_LVL, <<"v">>>> >>
          /\ env_var(environ, V_LVL) = <<"e">>
          /\ sources[1] = <<N_level, V_LVL, <<"Environment">>>>
       \/ /\ arg.struct = "Complex"
          /\ env_var(environ, V_NAME) = <<"v">>
          /\ sources[1] = <<N_name, V_NAME, <<"DotenvFile">>>>

(***************************************************************************)
(* C27: the tree of env_to_value is the same for every order in which the  *)
(* process environment enumerates the same variables, also when the path   *)
(* of one variable is a proper prefix of the path of another.              *)
(***************************************************************************)
\* the enumerations of the variables of vs, in every order
Enumerations(vs) == {q \in SeqsNoRepeat(Range(vs), Len(vs)) : Len(q) = Len(vs)}

C27_EnumerationOrderIndependent ==
    ret # NoValue =>
        \A q \in Enumerations(environ) : env_to_value(q, arg[1], arg[2]) = ret

\* no two prefixed variables of the environment have the same path
DistinctPaths ==
    \A i, j \in Prefixed(environ, arg[1]) :
        EnvPath(environ[i][1], arg[1], arg[2]) = EnvPath(environ[j][1], arg[1], arg[2])
            => i = j

\* C27 for the environments whose prefixed variables have different paths
C27_OrderIndependentForDistinctPaths ==
    (ret # NoValue /\ DistinctPaths) =>
        \A q \in Enumerations(environ) : env_to_value(q, arg[1], arg[2]) = ret

\* APP_DB=x enumerated after APP_DB_HOST=localhost: db is "x", as in the
\* other order
C27_WitnessProperPrefix ==
    /\ ret # NoValue
    /\ arg = <<S_APP_, S_sep>>
    /\ environ = << << S_APP_ \o <<"D","B","_","H","O","S","T">>,
                       <<"l","o","c","a","l","h","o","s","t">> >>,
                    << S_APP_ \o <<"D","B">>, <<"x">> >> >>
    /\ ret = Object(<<"d","b">> :> String(<<"x">>))

\* APP_DB=x and APP_db=true have the path db: the variable enumerated last
\* is the value of db
C27_SamePathLastWins ==
    /\ ret # NoValue
    /\ arg = <<S_APP_, S_sep>>
    /\ environ = << << S_APP_ \o <<"D","B">>, <<"x">> >>,
                    << S_APP_ \o <<"d","b">>, <<"t","r","u","e">> >> >>
    /\ ret = Object(<<"d","b">> :> Bool(TRUE))
    /\ env_to_value(<<environ[2], environ[1]>>, arg[1], arg[2])
           = Object(<<"d","b">> :> String(<<"x">>))

(***************************************************************************)
(* The text of a coerced value                                             *)
(***************************************************************************)
\* n zeros
Zeros(n) == [i \in 1..n |-> "0"]

\* the decimal text of an integer, with '-' when it is negative
int_to_string(n) ==
    IF n < 0 THEN <<"-">> \o usize_to_string(0 - n) ELSE usize_to_string(n)

\* the text serde_json gives a finite float (ryu): the shortest digits m of
\* the value m * 10^e, written with a decimal point when the point lies
\* within 16 digits and at most 5 zeros follow it, and as d.ddde<exp>
\* otherwise (m has at most 15 digits here, so it is the shortest form)
float_to_string(neg, m, e) ==
    LET point == Len(m) + e
        sign == IF neg THEN <<"-">> ELSE <<>>
        body == IF m = <<"0">> THEN <<"0", ".", "0">>
                ELSE IF e >= 0 /\ point <= 16 THEN m \o Zeros(e) \o <<".", "0">>
                ELSE IF 0 < point /\ point <= 16
                     THEN SubSeq(m, 1, point) \o <<".">> \o SubSeq(m, point + 1, Len(m))
                ELSE IF 0 - 5 < point /\ point <= 0
                     THEN <<"0", ".">> \o Zeros(0 - point) \o m
                ELSE IF Len(m) = 1 THEN m \o <<"e">> \o int_to_string(point - 1)
                ELSE <<Head(m), ".">> \o Tail(m) \o <<"e">> \o int_to_string(point - 1)
    IN sign \o body

\* the text of a scalar Value: the literal of a Bool, the decimal of a Number,
\* the content of a String
to_text(v) ==
    CASE v.t = "bool" -> IF v.v THEN S_true ELSE S_false
      [] v.t = "int" -> v.v
      [] v.t = "float" -> float_to_string(v.v[1], v.v[2], v.v[3])
      [] v.t = "str" -> v.v

(***************************************************************************)
(* C28: coercion loses no text: the text of coerce_value(s) is s, with its *)
(* letter case, leading zeros, leading plus sign and trailing decimal      *)
(* zeros, so that a String field can be given the text of its literal or   *)
(* variable from the coerced value.                                        *)
(***************************************************************************)
C28_CoercionKeepsText ==
    ret # NoValue => to_text(ret) = arg

\* two different strings have the same coerced value: no rendering gives
\* both back
C28_TextLost ==
    /\ ret # NoValue
    /\ arg = <<"T","R","U","E">>
    /\ ret = coerce_value(S_true)
    /\ to_text(ret) = S_true

\* leading zeros, a leading plus sign and trailing decimal zeros are lost
C28_DigitsLost ==
    /\ ret # NoValue
    /\ \/ arg = <<"0","1">> /\ to_text(ret) = <<"1">>
       \/ arg = <<"+","1">> /\ to_text(ret) = <<"1">>
       \/ arg = <<"1",".","5","0">> /\ to_text(ret) = <<"1",".","5">>

\* the text is kept by the strings that stay strings
C28_StringsKeepText ==
    (ret # NoValue /\ ret.t = "str") => to_text(ret) = arg

\* LVL=07 for the String field level: the merged tree holds the number 7 at
\* level, and the call does not give the field the text "07"
C28_StringFieldLosesText ==
    /\ pc = "returned"
    /\ arg.struct = "Service"
    /\ env_var(environ, V_LVL) = <<"0","7">>
    /\ result.ok
    /\ base.v[N_level] = IntNum(<<"7">>)
    /\ (ret.t = "Ok" => ret.v.v[N_level] # String(<<"0","7">>))

(***************************************************************************)
(* C29: a null that a later layer holds at the path of a field does not    *)
(* hide a non-null value that an earlier layer supplied there: the field   *)
(* is not reported Missing and does not fall back to its macro default, it *)
(* resolves to the last non-null value supplied.                           *)
(***************************************************************************)
\* the last value other than null that the files give at a key path
RECURSIVE FileNonNull(_, _)
FileNonNull(trees, keys) ==
    IF trees = <<>> THEN NoValue
    ELSE IF GetPath(trees[Len(trees)], keys) \notin {NoValue, Null}
         THEN GetPath(trees[Len(trees)], keys)
         ELSE FileNonNull(SubSeq(trees, 1, Len(trees) - 1), keys)

\* the last value other than null that the layers of the call supply for a
\* top-level field: its variable, else the files, else the defaults layer
LastNonNull(g) ==
    LET from_env == env_var(environ, env_var_name(arg.struct, g.name))
        from_file == FileNonNull(ParsedFiles(arg.attr.files), <<g.name>>)
        from_defaults == GetPath(prevBase, <<g.name>>)
    IN IF from_env # NoString THEN coerce_value(from_env)
       ELSE IF from_file # NoValue THEN from_file
       ELSE IF from_defaults # Null THEN from_defaults
       ELSE NoValue

\* the call reported the field Missing
ReportedMissing(name) ==
    /\ ret.t = "Err"
    /\ \/ ret.v = Error_missing(name)
       \/ \E k \in 1..Len(ret.errors) : ret.errors[k] = Error_missing(name)

C29_NullDoesNotHide ==
    (pc = "returned" /\ arg.struct = "Service" /\ result.ok) =>
        \A i \in 1..Len(Fields("Service")) :
            LET g == Fields("Service")[i]
            IN LastNonNull(g) # NoValue =>
                   /\ ~ReportedMissing(g.name)
                   /\ ret.t = "Ok" => ret.v.v[g.name] = LastNonNull(g)

\* c.json gives level = "w" and d.json, merged after it, gives null: the
\* field is its macro default "i"
C29_NullFallsBackToDefault ==
    /\ ResolvedOk("Service")
    /\ arg.attr.files = << <<P_c, TRUE>>, <<P_d, FALSE>> >>
    /\ env_var(environ, V_LVL) = NoString
    /\ GetPath(base, <<N_level>>) = Null
    /\ ret.v.v[N_level] = String(<<"i">>)

\* c.json gives url = "f" and e.json, merged after it, gives null: the
\* required field is reported Missing
C29_NullReportedMissing ==
    /\ pc = "returned"
    /\ arg.struct = "Service"
    /\ arg.attr.files = << <<P_c, TRUE>>, <<P_e, TRUE>> >>
    /\ env_var(environ, V_URL) = NoString
    /\ profile = NoString
    /\ result.ok
    /\ ret.t = "Err"
    /\ ret.v = Error_missing(N_url)

\* C29 for the calls in which no file holds a null
C29_HoldsWithoutNull ==
    (/\ pc = "returned" /\ arg.struct = "Service" /\ result.ok
     /\ \A i \in 1..Len(arg.attr.files) : arg.attr.files[i][1] \notin {P_d, P_e}) =>
        \A i \in 1..Len(Fields("Service")) :
            LET g == Fields("Service")[i]
            IN LastNonNull(g) # NoValue =>
                   /\ ~ReportedMissing(g.name)
                   /\ ret.t = "Ok" => ret.v.v[g.name] = LastNonNull(g)

(***************************************************************************)
(* C30: the error of a struct with flattened structs is flat: a Multiple   *)
(* holds no Multiple, and it holds one error for every failing leaf field  *)
(* of the struct and of its flattened structs, in declaration order.       *)
(***************************************************************************)
\* the errors of the failing leaf fields of a struct on a value, those of a
\* flattened struct in the place of its field
RECURSIVE LeafErrors(_, _)
LeafErrors(struct, value) ==
    LET RECURSIVE of(_)
        of(fields) ==
            IF fields = <<>> THEN <<>>
            ELSE (IF Head(fields).kind = "flatten"
                  THEN LeafErrors(Head(fields).nested,
                           IF Head(fields).name \in DOMAIN value.v
                           THEN value.v[Head(fields).name]
                           ELSE Object(EmptyMap))
                  ELSE extraction(Head(fields), value.v).pushed)
                     \o of(Tail(fields))
    IN IF ~IsObject(value) THEN <<Error_extraction(M_root, "object", M_root)>>
       ELSE of(Fields(struct))

C30_MultipleIsFlat ==
    (ret # NoValue /\ ret.t = "Err" /\ ret.v.t = "Multiple") =>
        /\ \A k \in 1..Len(ret.v.v) : ret.v.v[k].t # "Multiple"
        /\ Len(ret.v.v) = Len(LeafErrors(arg[1], arg[2]))
        /\ \A k \in 1..Len(ret.v.v) : ret.v.v[k] = LeafErrors(arg[1], arg[2])[k]

\* the field of the struct that holds the flattened struct failed as well
OwnFailure ==
    \E k \in 1..Len(ret.errors) : ret.errors[k].t # "Multiple"

\* C30 for the calls in which the flattened struct has at most one failing
\* field or is the only field that failed
C30_FlatWithOneNestedFailure ==
    (/\ ret # NoValue /\ ret.t = "Err" /\ ret.v.t = "Multiple"
     /\ \A k \in 1..Len(ret.errors) : ret.errors[k].t # "Multiple" \/ ~OwnFailure) =>
        /\ \A k \in 1..Len(ret.v.v) : ret.v.v[k].t # "Multiple"
        /\ ret.v.v = LeafErrors(arg[1], arg[2])

\* port is absent, and in db url is absent and pool is a string: the error
\* is Multiple of Missing(port) and the Multiple of the two errors of db
C30_NestedMultiple ==
    /\ ret # NoValue
    /\ arg[1] = "Config"
    /\ IsObject(arg[2])
    /\ ret.t = "Err"
    /\ ret.v = Error_Multiple(
                  << Error_missing(N_port),
                     Error_Multiple(<< Error_missing(N_url),
                                       Error_extraction(N_pool, "i64", M_convert) >>) >>)
    /\ Len(LeafErrors(arg[1], arg[2])) = 3

====
